---- MODULE Spec2Model ----
(***************************************************************************)
(* Evidence matching and deviation classification of the video analysis    *)
(* agent (src/src/tools/step_matcher.py).                                  *)
(*                                                                         *)
(* A text is a sequence of one-character strings, so that str.lower(), the *)
(* substring test `word in text` and the two regular expressions of        *)
(* extract_objects are computed character by character.  The alphabet of   *)
(* the modelled texts is the ASCII letters, the space and the double       *)
(* quote.  A score is an exact fraction <<n, d>> in lowest terms (d > 0);  *)
(* the rounding of Python's binary floats is not modelled.                 *)
(***************************************************************************)
EXTENDS Integers, Sequences, FiniteSets, TLC

VARIABLES planned_action, observed_action, similarity,
          planned_steps, timeline, threshold, match_results, categories,
          analyzed_frames, video_frames, unified_timeline,
          test_output, report_content, saved_report, console, summary, scans, runs,
          video_paths, files, cap, interval_seconds, frame_interval, frames_read,
          extracted_frames, description, response,
          error, pc

vars == <<planned_action, observed_action, similarity,
          planned_steps, timeline, threshold, match_results, categories,
          analyzed_frames, video_frames, unified_timeline,
          test_output, report_content, saved_report, console, summary, scans, runs,
          video_paths, files, cap, interval_seconds, frame_interval, frames_read,
          extracted_frames, description, response,
          error, pc>>

scorer_vars == <<planned_action, observed_action, similarity>>

matcher_vars == <<planned_steps, timeline, threshold, match_results, categories>>

\* The frames of the videos: the analyzed frames build_action_timeline reads, the mapping
\* and the result of merge_video_timelines
frame_vars == <<analyzed_frames, video_frames, unified_timeline>>

\* No frame has been read
NoFrames ==
    /\ analyzed_frames = <<>>
    /\ video_frames = <<>>
    /\ unified_timeline = <<>>

\* The pipeline driver and the callers of the matcher: the parsed test output, the report
\* as generated and as saved, the lines printed on the console and the final summary of
\* main(); the local variables of the calls of match_step_with_timeline in progress and
\* the inputs and results of the completed runs of the matcher
driver_vars == <<test_output, report_content, saved_report, console, summary, scans, runs>>

\* The call of extract_frames in progress: the capture of the video, the parameter
\* interval_seconds, the locals frame_interval, frame_count and frames
extract_vars == <<cap, interval_seconds, frame_interval, frames_read, extracted_frames>>

\* The description of a frame and what analyze_frame_with_vision_api extracts from it
description_vars == <<description, response>>

\* What is upstream of the pipeline: the paths given to process_multiple_videos and the
\* video files behind them, the call of extract_frames and the description of a frame
upstream_vars == <<video_paths, files, extract_vars, description_vars>>

\* No video is being read
NoCapture ==
    /\ cap = <<>>
    /\ interval_seconds = <<2, 1>>
    /\ frame_interval = 0
    /\ frames_read = 0
    /\ extracted_frames = <<>>

\* No frame is described
NoDescription ==
    /\ description = <<>>
    /\ response = <<>>

\* Nothing upstream is looked at
UpstreamIdle ==
    /\ video_paths = <<>>
    /\ files = <<>>
    /\ NoCapture
    /\ NoDescription

\* Python's None
None == [is_none |-> TRUE]

\* None in the place of a text: a sequence that is no text
NoText == <<"None">>

\* Nothing of the driver has run
DriverIdle ==
    /\ test_output = None
    /\ report_content = None
    /\ saved_report = None
    /\ console = <<>>
    /\ summary = None
    /\ scans = <<>>
    /\ runs = <<>>

----------------------------------------------------------------------------
(* Fractions *)

RECURSIVE Gcd(_, _)
Gcd(a, b) == IF b = 0 THEN a ELSE Gcd(b, a % b)

Abs(n) == IF n < 0 THEN -n ELSE n

Frac(n, d) == LET g == Gcd(Abs(n), d) IN <<n \div g, d \div g>>

FAdd(x, y) == Frac(x[1] * y[2] + y[1] * x[2], x[2] * y[2])

FMul(x, y) == Frac(x[1] * y[1], x[2] * y[2])

FLeq(x, y) == x[1] * y[2] <= y[1] * x[2]

FLt(x, y) == x[1] * y[2] < y[1] * x[2]

Zero == Frac(0, 1)

One == Frac(1, 1)

Max(a, b) == IF a >= b THEN a ELSE b

Min(a, b) == IF a <= b THEN a ELSE b

Range(s) == {s[i] : i \in 1..Len(s)}

----------------------------------------------------------------------------
(* Characters and strings *)

UpperChars == <<"A", "B", "C", "D", "E", "F", "G", "H", "I", "J", "K", "L", "M",
                "N", "O", "P", "Q", "R", "S", "T", "U", "V", "W", "X", "Y", "Z">>

LowerChars == <<"a", "b", "c", "d", "e", "f", "g", "h", "i", "j", "k", "l", "m",
                "n", "o", "p", "q", "r", "s", "t", "u", "v", "w", "x", "y", "z">>

UpperSet == {UpperChars[i] : i \in 1..Len(UpperChars)}

LowerSet == {LowerChars[i] : i \in 1..Len(LowerChars)}

IsUpper(c) == c \in UpperSet

IsLower(c) == c \in LowerSet

\* \w of the re module, over the alphabet of the model
IsWord(c) == IsUpper(c) \/ IsLower(c)

\* \s of the re module, over the alphabet of the model
IsSpace(c) == c = " "

\* The lower-case letter of each upper-case letter
LowerOf ==
    ("A" :> "a") @@ ("B" :> "b") @@ ("C" :> "c") @@ ("D" :> "d") @@ ("E" :> "e") @@ ("F" :> "f")
    @@ ("G" :> "g") @@ ("H" :> "h") @@ ("I" :> "i") @@ ("J" :> "j") @@ ("K" :> "k") @@ ("L" :> "l")
    @@ ("M" :> "m") @@ ("N" :> "n") @@ ("O" :> "o") @@ ("P" :> "p") @@ ("Q" :> "q") @@ ("R" :> "r")
    @@ ("S" :> "s") @@ ("T" :> "t") @@ ("U" :> "u") @@ ("V" :> "v") @@ ("W" :> "w") @@ ("X" :> "x")
    @@ ("Y" :> "y") @@ ("Z" :> "z")

LowerChar(c) == IF IsUpper(c) THEN LowerOf[c] ELSE c

\* str.lower()
RECURSIVE lower(_)
lower(text) ==
    IF text = <<>> THEN <<>> ELSE <<LowerChar(Head(text))>> \o lower(Tail(text))

\* `word in text` on two str
Contains(text, word) ==
    \E i \in 0..(Len(text) - Len(word)) :
        \A k \in 1..Len(word) : text[i + k] = word[k]

\* The whitespace-separated tokens of a text (str.split())
RECURSIVE Tokens(_)
Tokens(text) ==
    IF text = <<>> THEN <<>>
    ELSE IF IsSpace(Head(text)) THEN Tokens(Tail(text))
    ELSE LET stops == {i \in 1..Len(text) : IsSpace(text[i])}
             e == IF stops = {} THEN Len(text) + 1
                  ELSE CHOOSE i \in stops : \A j \in stops : i <= j
         IN <<SubSeq(text, 1, e - 1)>> \o Tokens(SubSeq(text, e, Len(text)))

----------------------------------------------------------------------------
(* Similarity scorer: semantic_match and extract_objects *)

action_words ==
    <<<<"c", "l", "i", "c", "k">>,
      <<"e", "n", "t", "e", "r">>,
      <<"t", "y", "p", "e">>,
      <<"s", "e", "l", "e", "c", "t">>,
      <<"n", "a", "v", "i", "g", "a", "t", "e">>,
      <<"f", "i", "l", "t", "e", "r">>,
      <<"s", "e", "a", "r", "c", "h">>,
      <<"s", "u", "b", "m", "i", "t">>,
      <<"o", "p", "e", "n">>>>

ui_elements ==
    <<<<"s", "e", "a", "r", "c", "h">>,
      <<"i", "c", "o", "n">>,
      <<"b", "u", "t", "t", "o", "n">>,
      <<"i", "n", "p", "u", "t">>,
      <<"f", "i", "e", "l", "d">>,
      <<"f", "i", "l", "t", "e", "r">>,
      <<"m", "e", "n", "u">>,
      <<"l", "i", "n", "k">>,
      <<"b", "a", "r">>>>

\* re.findall(r'"([^"]*)"', text): the contents of the quoted substrings, left to right
RECURSIVE FindQuoted(_)
FindQuoted(text) ==
    LET opens == {i \in 1..Len(text) : text[i] = "\""}
    IN IF opens = {} THEN <<>>
       ELSE LET i == CHOOSE x \in opens : \A y \in opens : x <= y
                closes == {j \in opens : j > i}
            IN IF closes = {} THEN <<>>
               ELSE LET j == CHOOSE x \in closes : \A y \in closes : x <= y
                    IN <<SubSeq(text, i + 1, j - 1)>>
                       \o FindQuoted(SubSeq(text, j + 1, Len(text)))

\* The last index of the run of [a-z] that starts at i (i - 1 when text[i] is not in [a-z])
RECURSIVE LowerRunEnd(_, _)
LowerRunEnd(text, i) ==
    IF i <= Len(text) /\ IsLower(text[i]) THEN LowerRunEnd(text, i + 1) ELSE i - 1

\* The last index of the run of \s that starts at i (i - 1 when text[i] is not \s)
RECURSIVE SpaceRunEnd(_, _)
SpaceRunEnd(text, i) ==
    IF i <= Len(text) /\ IsSpace(text[i]) THEN SpaceRunEnd(text, i + 1) ELSE i - 1

\* \b between text[i] and text[i + 1]
Boundary(text, i) ==
    LET before == i >= 1 /\ i <= Len(text) /\ IsWord(text[i])
        after == i + 1 >= 1 /\ i + 1 <= Len(text) /\ IsWord(text[i + 1])
    IN before # after

\* [A-Z][a-z]+ at i: the index of its last character, 0 when it does not match
CapWordEnd(text, i) ==
    IF i <= Len(text) /\ IsUpper(text[i]) /\ LowerRunEnd(text, i + 1) >= i + 1
    THEN LowerRunEnd(text, i + 1)
    ELSE 0

\* (?:\s+[A-Z][a-z]+)*\b after a word that ends at e, with a boundary at e:
\* the end of the longest repetition that ends at a boundary (greedy, with backtracking)
RECURSIVE CapExtend(_, _)
CapExtend(text, e) ==
    LET s == SpaceRunEnd(text, e + 1)
        k == IF s >= e + 1 THEN CapWordEnd(text, s + 1) ELSE 0
    IN IF k > 0 /\ Boundary(text, k) THEN CapExtend(text, k) ELSE e

\* \b[A-Z][a-z]+(?:\s+[A-Z][a-z]+)*\b at i: the index of its last character, 0 for no match
CapMatchEnd(text, i) ==
    LET e == CapWordEnd(text, i)
    IN IF Boundary(text, i - 1) /\ e > 0 /\ Boundary(text, e)
       THEN CapExtend(text, e)
       ELSE 0

\* re.findall(r'\b[A-Z][a-z]+(?:\s+[A-Z][a-z]+)*\b', text), scanning from index i
RECURSIVE FindCapitalized(_, _)
FindCapitalized(text, i) ==
    IF i > Len(text) THEN <<>>
    ELSE LET e == CapMatchEnd(text, i)
         IN IF e > 0
            THEN <<SubSeq(text, i, e)>> \o FindCapitalized(text, e + 1)
            ELSE FindCapitalized(text, i + 1)

RECURSIVE LowerAll(_)
LowerAll(seq) ==
    IF seq = <<>> THEN <<>> ELSE <<lower(Head(seq))>> \o LowerAll(Tail(seq))

\* [word for word in action_words if word in text_lower]
ActionsIn(text_lower) ==
    SelectSeq(action_words, LAMBDA word : Contains(text_lower, word))

\* for element in ui_elements: if element in text_lower: objects.append(element)
ElementsIn(text_lower) ==
    SelectSeq(ui_elements, LAMBDA element : Contains(text_lower, element))

extract_objects(text) ==
    LET text_lower == lower(text)
        elements == ElementsIn(text_lower)
        quoted == FindQuoted(text)
        capitalized == FindCapitalized(text, 1)
    IN elements \o LowerAll(quoted) \o LowerAll(capitalized)

\* Overlap with the convention that two empty sets overlap fully
OverlapEmptyIsOne(a, b) ==
    IF Range(a) \cup Range(b) = {} THEN One
    ELSE Frac(Cardinality(Range(a) \cap Range(b)), Cardinality(Range(a) \cup Range(b)))

\* len(set(a) & set(b)) / max(len(set(a) | set(b)), 1) on two lists
Overlap(a, b) ==
    Frac(Cardinality(Range(a) \cap Range(b)),
         Max(Cardinality(Range(a) \cup Range(b)), 1))

ActionWeight == Frac(6, 10)

ObjectWeight == Frac(4, 10)

\* semantic_match without the weights of the weighted average
semantic_match_unweighted(planned, observed) ==
    FAdd(Overlap(ActionsIn(lower(planned)), ActionsIn(lower(observed))),
         Overlap(extract_objects(planned), extract_objects(observed)))

semantic_match(planned, observed) ==
    LET planned_lower == lower(planned)
        observed_lower == lower(observed)
        planned_actions == ActionsIn(planned_lower)
        observed_actions == ActionsIn(observed_lower)
        planned_objects == extract_objects(planned)
        observed_objects == extract_objects(observed)
        action_match == Overlap(planned_actions, observed_actions)
        object_match == Overlap(planned_objects, observed_objects)
    IN FAdd(FMul(action_match, ActionWeight), FMul(object_match, ObjectWeight))

----------------------------------------------------------------------------
(* Inputs *)

\* Bounds of the model
MaxWords == 3

MaxSteps == 2

MaxEvents == 2

\* The words the scorer's texts are made of: action verbs, a word that contains one
\* ("center"), a capitalized UI noun, a capitalized label, a quoted value, a filler word
Lexicon ==
    {<<"c", "l", "i", "c", "k">>,
     <<"e", "n", "t", "e", "r">>,
     <<"c", "e", "n", "t", "e", "r">>,
     <<"S", "e", "a", "r", "c", "h">>,
     <<"I", "c", "o", "n">>,
     <<"\"", "o", "k", "\"">>,
     <<"t", "h", "e">>}

JoinWord(text, word) == IF text = <<>> THEN word ELSE text \o <<" ">> \o word

\* The texts of exactly n words of the lexicon, separated by one space
RECURSIVE TextsOfWords(_)
TextsOfWords(n) ==
    IF n = 0 THEN {<<>>}
    ELSE {JoinWord(t, word) : t \in TextsOfWords(n - 1), word \in Lexicon}

\* The pairs of texts of at most MaxWords words together
ScorerInputs ==
    UNION {TextsOfWords(a) \X TextsOfWords(b) :
             <<a, b>> \in {ab \in (0..MaxWords) \X (0..MaxWords) : ab[1] + ab[2] <= MaxWords}}

T_click == <<"c", "l", "i", "c", "k">>

T_icon == <<"i", "c", "o", "n">>

T_enter == <<"e", "n", "t", "e", "r">>

T_click_icon == <<"c", "l", "i", "c", "k", " ", "i", "c", "o", "n">>

T_click_enter == <<"c", "l", "i", "c", "k", " ", "e", "n", "t", "e", "r">>

T_icon_menu == <<"i", "c", "o", "n", " ", "m", "e", "n", "u">>

T_open_menu == <<"o", "p", "e", "n", " ", "m", "e", "n", "u">>

T_icon_click_enter ==
    <<"i", "c", "o", "n", " ", "c", "l", "i", "c", "k", " ", "e", "n", "t", "e", "r">>

\* The phrases extract_actions takes from the description "icon click enter"
AnalysisPhrases == <<T_icon_click_enter, T_click_enter>>

\* Planned steps: one with a summary, one with an empty summary, one whose summary
\* shares little with the evidence while its description shares much
StepPool ==
    {[next_step_summary |-> T_click_icon, next_step |-> T_open_menu],
     [next_step_summary |-> <<>>, next_step |-> T_enter],
     [next_step_summary |-> T_icon_menu, next_step |-> T_click_icon]}

\* Timeline events: phrases in each of the three lists, equal scores within one event
\* and across events with different timestamps, events that score 0 for some step
EventPool ==
    {[timestamp |-> 5, actions |-> <<T_click_enter>>, ui_elements |-> <<>>,
      text_content |-> <<>>],
     [timestamp |-> 5, actions |-> <<>>, ui_elements |-> <<T_click_icon>>,
      text_content |-> <<>>],
     [timestamp |-> 5, actions |-> <<T_click>>, ui_elements |-> <<>>,
      text_content |-> <<T_icon>>],
     [timestamp |-> 12, actions |-> <<T_click, T_icon_menu>>, ui_elements |-> <<T_icon>>,
      text_content |-> <<T_click>>]}

\* Thresholds: the default 0.5, the ends of [0,1], one below the low band, two outside [0,1]
Thresholds ==
    {Frac(1, 2), Frac(0, 1), Frac(1, 1), Frac(1, 5), Frac(11, 10), Frac(-1, 10)}

RECURSIVE SeqsOfLen(_, _)
SeqsOfLen(S, n) ==
    IF n = 0 THEN {<<>>}
    ELSE {Append(q, x) : q \in SeqsOfLen(S, n - 1), x \in S}

SeqsUpTo(S, n) == UNION {SeqsOfLen(S, k) : k \in 0..n}

----------------------------------------------------------------------------
(* Inputs of the scenarios: the step "Enter password into login field", the   *)
(* step of the __main__ block of step_matcher.py with the summary "Click the  *)
(* Search icon" and its event at 00:05; events around them                    *)

T_Enter_password_into_login_field ==
    <<"E", "n", "t", "e", "r", " ", "p", "a", "s", "s", "w", "o", "r", "d", " ", "i", "n", "t",
      "o", " ", "l", "o", "g", "i", "n", " ", "f", "i", "e", "l", "d">>

T_Click_the_Search_icon ==
    <<"C", "l", "i", "c", "k", " ", "t", "h", "e", " ", "S", "e", "a", "r", "c", "h", " ", "i",
      "c", "o", "n">>

T_Click_search_icon ==
    <<"C", "l", "i", "c", "k", " ", "s", "e", "a", "r", "c", "h", " ", "i", "c", "o", "n">>

T_click_search_icon ==
    <<"c", "l", "i", "c", "k", " ", "s", "e", "a", "r", "c", "h", " ", "i", "c", "o", "n">>

T_search_icon ==
    <<"s", "e", "a", "r", "c", "h", " ", "i", "c", "o", "n">>

T_button ==
    <<"b", "u", "t", "t", "o", "n">>

T_click_search_field ==
    <<"c", "l", "i", "c", "k", " ", "s", "e", "a", "r", "c", "h", " ", "f", "i", "e", "l", "d">>

T_type_password ==
    <<"t", "y", "p", "e", " ", "p", "a", "s", "s", "w", "o", "r", "d">>

T_Center_panel ==
    <<"C", "e", "n", "t", "e", "r", " ", "p", "a", "n", "e", "l">>

EnterPasswordStep ==
    [next_step_summary |-> T_Enter_password_into_login_field,
     next_step |-> T_Enter_password_into_login_field]

ClickSearchStep ==
    [next_step_summary |-> T_Click_the_Search_icon, next_step |-> T_Click_search_icon]

ScenarioSteps == {EnterPasswordStep, ClickSearchStep}

\* The event at 00:05 of the __main__ block
EventAt0005 ==
    [timestamp |-> 5, actions |-> <<T_click_search_icon>>,
     ui_elements |-> <<T_search_icon, T_button>>, text_content |-> <<>>]

\* Events around it: the same phrase earlier, the phrase with a capital later, phrases
\* that share one word or none with the steps, a text that contains "enter" in "Center"
ScenarioEvents ==
    {EventAt0005,
     [timestamp |-> 1, actions |-> <<T_click_search_icon>>, ui_elements |-> <<>>,
      text_content |-> <<>>],
     [timestamp |-> 9, actions |-> <<T_Click_search_icon>>, ui_elements |-> <<>>,
      text_content |-> <<>>],
     [timestamp |-> 2, actions |-> <<T_click_search_field>>, ui_elements |-> <<>>,
      text_content |-> <<>>],
     [timestamp |-> 3, actions |-> <<T_open_menu>>, ui_elements |-> <<>>,
      text_content |-> <<>>],
     [timestamp |-> 7, actions |-> <<T_type_password>>, ui_elements |-> <<>>,
      text_content |-> <<>>],
     [timestamp |-> 8, actions |-> <<>>, ui_elements |-> <<>>,
      text_content |-> <<T_Center_panel>>]}

----------------------------------------------------------------------------
(* The scores of the texts of the model, computed once *)

StepTexts ==
    {st.next_step_summary : st \in StepPool \cup ScenarioSteps}
    \cup {st.next_step : st \in StepPool \cup ScenarioSteps}

EventPhrases ==
    UNION {Range(e.actions) \cup Range(e.ui_elements) \cup Range(e.text_content) :
             e \in EventPool \cup ScenarioEvents}
    \cup Range(AnalysisPhrases)

\* <<planned, observed, semantic_match(planned, observed)>> for the texts of the pools
SemanticMatchTable ==
    {<<pq[1], pq[2], semantic_match(pq[1], pq[2])>> : pq \in StepTexts \X EventPhrases}

\* semantic_match(planned, observed), read from the table when the pair is in it
SemanticMatch(planned, observed) ==
    IF \E t \in SemanticMatchTable : t[1] = planned /\ t[2] = observed
    THEN (CHOOSE t \in SemanticMatchTable : t[1] = planned /\ t[2] = observed)[3]
    ELSE semantic_match(planned, observed)

----------------------------------------------------------------------------
(* Step matcher: match_step_with_timeline, match_all_steps, categorize_deviation *)

\* Candidate referring to the last item of the timeline instead of the item visited
CandidateOfLastItem(tl, i, observed, score) ==
    [timeline_item |-> Len(tl),
     observed_action |-> observed,
     score |-> score,
     timestamp |-> tl[Len(tl)].timestamp]

\* The dict built for best_match and for each element of matches.  timeline_item is a
\* reference to the timeline's dict: its position in the timeline stands for its identity.
Candidate(tl, i, observed, score) ==
    [timeline_item |-> i,
     observed_action |-> observed,
     score |-> score,
     timestamp |-> tl[i].timestamp]

\* The phrases of timeline item i in the order the loop body visits them: the loop over
\* "actions", then the loop over ui_elements + text_content
ItemPhrases(tl, i) ==
    [k \in 1..Len(tl[i].actions) |->
        [item |-> i, phrase |-> tl[i].actions[k], in_actions |-> TRUE]]
    \o [k \in 1..Len(tl[i].ui_elements \o tl[i].text_content) |->
        [item |-> i, phrase |-> (tl[i].ui_elements \o tl[i].text_content)[k],
         in_actions |-> FALSE]]

\* ScanOrder visiting the items of the timeline from the last to the first
RECURSIVE ScanOrderNewestFirst(_, _)
ScanOrderNewestFirst(tl, i) ==
    IF i > Len(tl) THEN <<>> ELSE ScanOrderNewestFirst(tl, i + 1) \o ItemPhrases(tl, i)

\* `for timeline_item in timeline`: the phrases of all items in the order they are visited
RECURSIVE ScanOrder(_, _)
ScanOrder(tl, i) ==
    IF i > Len(tl) THEN <<>> ELSE ItemPhrases(tl, i) \o ScanOrder(tl, i + 1)

\* ScanStep keeping the first phrase with a positive score as best_match
ScanStepFirstPositiveWins(acc, tl, visit, score, thr) ==
    [best_score |-> IF acc.best_match = None /\ FLt(Zero, score)
                    THEN score ELSE acc.best_score,
     best_match |-> IF acc.best_match = None /\ FLt(Zero, score)
                    THEN Candidate(tl, visit.item, visit.phrase, score)
                    ELSE acc.best_match,
     matches |-> IF visit.in_actions /\ FLeq(thr, score)
                 THEN Append(acc.matches, Candidate(tl, visit.item, visit.phrase, score))
                 ELSE acc.matches]

\* ScanStep replacing best_match on a score that is higher or equal (the last one wins)
ScanStepLastWins(acc, tl, visit, score, thr) ==
    [best_score |-> IF FLeq(acc.best_score, score) THEN score ELSE acc.best_score,
     best_match |-> IF FLeq(acc.best_score, score)
                    THEN Candidate(tl, visit.item, visit.phrase, score)
                    ELSE acc.best_match,
     matches |-> IF visit.in_actions /\ FLeq(thr, score)
                 THEN Append(acc.matches, Candidate(tl, visit.item, visit.phrase, score))
                 ELSE acc.matches]

\* The body of the two inner loops on one phrase, after score = semantic_match(...): both
\* replace best_match on a strictly higher score, only the loop over "actions" appends
\* to matches
ScanStep(acc, tl, visit, score, thr) ==
    [best_score |-> IF FLt(acc.best_score, score) THEN score ELSE acc.best_score,
     best_match |-> IF FLt(acc.best_score, score)
                    THEN Candidate(tl, visit.item, visit.phrase, score)
                    ELSE acc.best_match,
     matches |-> IF visit.in_actions /\ FLeq(thr, score)
                 THEN Append(acc.matches, Candidate(tl, visit.item, visit.phrase, score))
                 ELSE acc.matches]

\* The state of the scan after the first n visited phrases
RECURSIVE ScanTimeline(_, _, _, _, _)
ScanTimeline(planned, tl, visits, n, thr) ==
    IF n = 0 THEN [best_score |-> Zero, best_match |-> None, matches |-> <<>>]
    ELSE ScanStep(ScanTimeline(planned, tl, visits, n - 1, thr), tl, visits[n],
                  SemanticMatch(planned, visits[n].phrase), thr)

\* ComparisonText taking the description whenever there is one
ComparisonTextDescriptionFirst(planned_step) ==
    IF planned_step.next_step # <<>>
    THEN planned_step.next_step
    ELSE planned_step.next_step_summary

\* planned_step.get("next_step_summary", "") or planned_step.get("next_step", "")
ComparisonText(planned_step) ==
    IF planned_step.next_step_summary # <<>>
    THEN planned_step.next_step_summary
    ELSE planned_step.next_step

\* MatchResult deciding the verdict with best_score > threshold
MatchResultStrictlyAbove(planned_step, planned, acc, thr) ==
    [planned_step |-> planned_step,
     planned_action |-> planned,
     best_match |-> acc.best_match,
     best_score |-> acc.best_score,
     all_matches |-> acc.matches,
     is_matched |-> FLt(thr, acc.best_score),
     result |-> IF FLt(thr, acc.best_score) THEN "observed" ELSE "deviation"]

\* The dict returned by match_step_with_timeline
MatchResult(planned_step, planned, acc, thr) ==
    [planned_step |-> planned_step,
     planned_action |-> planned,
     best_match |-> acc.best_match,
     best_score |-> acc.best_score,
     all_matches |-> acc.matches,
     is_matched |-> FLeq(thr, acc.best_score),
     result |-> IF FLeq(thr, acc.best_score) THEN "observed" ELSE "deviation"]

\* The loops of match_step_with_timeline on the comparison text
ScanFor(planned, tl, visits, thr) == ScanTimeline(planned, tl, visits, Len(visits), thr)

match_step_with_timeline(planned_step, tl, thr) ==
    MatchResult(planned_step,
                ComparisonText(planned_step),
                ScanFor(ComparisonText(planned_step), tl, ScanOrder(tl, 1), thr),
                thr)

\* match_all_steps putting each result in front of the earlier ones
match_all_steps_newest_first(steps, tl, thr) ==
    [i \in 1..Len(steps) |-> match_step_with_timeline(steps[Len(steps) + 1 - i], tl, thr)]

match_all_steps(steps, tl, thr) ==
    [i \in 1..Len(steps) |-> match_step_with_timeline(steps[i], tl, thr)]

\* The literal 0.3 of categorize_deviation
LowBand == Frac(3, 10)

\* categorize_deviation with the low band closed at 0.3
categorize_low_band_closed(match_result) ==
    IF match_result.is_matched THEN "observed"
    ELSE IF match_result.best_score = Zero THEN "skipped"
    ELSE IF FLeq(match_result.best_score, LowBand) THEN "not_visible"
    ELSE "altered"

\* categorize_deviation without the test for 0.0
categorize_without_skipped(match_result) ==
    IF match_result.is_matched THEN "observed"
    ELSE IF FLt(match_result.best_score, LowBand) THEN "not_visible"
    ELSE "altered"

categorize_deviation(match_result) ==
    IF match_result.is_matched THEN "observed"
    ELSE IF match_result.best_score = Zero THEN "skipped"
    ELSE IF FLt(match_result.best_score, LowBand) THEN "not_visible"
    ELSE "altered"

----------------------------------------------------------------------------
(* The scorer applied to one pair of texts *)

InitScorer ==
    /\ \E input \in ScorerInputs :
          /\ planned_action = input[1]
          /\ observed_action = input[2]
    /\ similarity = <<>>
    /\ planned_steps = <<>>
    /\ timeline = <<>>
    /\ threshold = Frac(1, 2)
    /\ match_results = <<>>
    /\ categories = <<>>
    /\ NoFrames
    /\ DriverIdle
    /\ UpstreamIdle
    /\ error = "none"
    /\ pc = "score"

Score ==
    /\ pc = "score"
    /\ similarity' = semantic_match(planned_action, observed_action)
    /\ pc' = "scored"
    /\ UNCHANGED <<planned_action, observed_action, matcher_vars, frame_vars, driver_vars,
                   upstream_vars, error>>

NextScorer == Score

SpecScorer == InitScorer /\ [][NextScorer]_vars

----------------------------------------------------------------------------
(* The matcher applied to a list of planned steps, a timeline and a threshold *)

Init ==
    /\ planned_steps \in SeqsUpTo(StepPool, MaxSteps)
    /\ timeline \in SeqsUpTo(EventPool, MaxEvents)
    /\ threshold \in Thresholds
    /\ match_results = <<>>
    /\ categories = <<>>
    /\ planned_action = <<>>
    /\ observed_action = <<>>
    /\ similarity = <<>>
    /\ NoFrames
    /\ DriverIdle
    /\ UpstreamIdle
    /\ error = "none"
    /\ pc = "match"

\* match_all_steps(planned_steps, timeline, threshold): no exception is raised on any input
MatchAllSteps ==
    /\ pc = "match"
    /\ match_results' = match_all_steps(planned_steps, timeline, threshold)
    /\ pc' = "matched"
    /\ UNCHANGED <<planned_steps, timeline, threshold, categories, scorer_vars, frame_vars,
                   driver_vars, upstream_vars, error>>

\* categorize_deviation on the next match result
Categorize ==
    /\ pc = "matched"
    /\ Len(categories) < Len(match_results)
    /\ categories' = Append(categories, categorize_deviation(match_results[Len(categories) + 1]))
    /\ UNCHANGED <<planned_steps, timeline, threshold, match_results, scorer_vars, frame_vars,
                   driver_vars, error, upstream_vars, pc>>

Next == MatchAllSteps \/ Categorize

Spec == Init /\ [][Next]_vars

----------------------------------------------------------------------------
(* Properties of the scorer, under SpecScorer *)

\* C1: semantic_match is total and bounded: for every pair of texts, the empty text
\* included, it returns a score s with 0 <= s <= 1 and raises nothing.
C1_ScoreInUnitInterval ==
    /\ error = "none"
    /\ pc = "scored" => FLeq(Zero, similarity) /\ FLeq(similarity, One)

\* C1, witnesses: two empty texts are scored, and some pair reaches the upper end
C1_Witness ==
    /\ pc = "scored"
    /\ planned_action = <<>>
    /\ observed_action = <<>>
    /\ similarity = Zero

C1_WitnessOne == pc = "scored" /\ similarity = One /\ planned_action # observed_action

\* The set of action verbs and the set of objects the scorer takes from a text
ActionTokens(text) == {word \in Range(action_words) : Contains(lower(text), word)}

ObjectTokens(text) == Range(extract_objects(text))

\* |A intersect B| over max(|A union B|, 1), as numerator and denominator
OverlapNum(A, B) == Cardinality(A \cap B)

OverlapDen(A, B) == IF A \cup B = {} THEN 1 ELSE Cardinality(A \cup B)

C9_WitnessMixed ==
    /\ pc = "scored"
    /\ OverlapNum(ActionTokens(planned_action), ActionTokens(observed_action)) = 1
    /\ OverlapDen(ActionTokens(planned_action), ActionTokens(observed_action)) = 2
    /\ ObjectTokens(planned_action) # {}
    /\ ObjectTokens(planned_action) = ObjectTokens(observed_action)
    /\ similarity = Frac(7, 10)

\* C10: a vocabulary word (action verb or UI noun) is in the token set of a text only if
\* it is one of the lower-cased whitespace-separated tokens of the text; a word that only
\* contains it ("center" for enter) contributes nothing.
C10_VocabularyWordsAreTokens ==
    pc = "scored" =>
        \A text \in {planned_action, observed_action} :
            /\ Range(ActionsIn(lower(text))) \subseteq Range(Tokens(lower(text)))
            /\ Range(ElementsIn(lower(text))) \subseteq Range(Tokens(lower(text)))

\* C10, the same on the score: "enter" against "center" has no token in common
C10_CenterIsNotEnter ==
    (pc = "scored" /\ planned_action = T_enter
        /\ observed_action = <<"c", "e", "n", "t", "e", "r">>) => similarity = Zero

----------------------------------------------------------------------------
(* Properties of the matcher and of the classifier, under Spec *)

Matched == pc = "matched"

Results == {match_results[i] : i \in 1..Len(match_results)}

\* C2: a result is "observed" (is_matched true) iff best_score >= threshold, otherwise it
\* is "deviation" (is_matched false).
C2_VerdictIffAtLeastThreshold ==
    Matched =>
        \A r \in Results :
            /\ r.result \in {"observed", "deviation"}
            /\ r.result = "observed" <=> FLeq(threshold, r.best_score)
            /\ r.is_matched <=> FLeq(threshold, r.best_score)

\* C2, witness: a step whose best score is exactly the threshold is observed, next to a
\* step below the threshold
C2_Witness ==
    /\ Matched
    /\ \E r \in Results : r.best_score = threshold /\ r.result = "observed" /\ r.is_matched
    /\ \E r \in Results : r.result = "deviation" /\ ~r.is_matched

\* The (event, phrase) pairs of a timeline in the documented scan order: events in timeline
\* order, within one event actions, then ui_elements, then text_content
EventEvidence(tl, i) ==
    LET phrases == tl[i].actions \o tl[i].ui_elements \o tl[i].text_content
    IN [k \in 1..Len(phrases) |-> [event |-> i, phrase |-> phrases[k]]]

RECURSIVE Evidence(_, _)
Evidence(tl, i) == IF i > Len(tl) THEN <<>> ELSE EventEvidence(tl, i) \o Evidence(tl, i + 1)

\* The positions of the evidence whose score against the result's text is the best score
AtBest(r, ev) ==
    {k \in 1..Len(ev) : SemanticMatch(r.planned_action, ev[k].phrase) = r.best_score}

BestIsMaximum(r, ev) ==
    /\ \A k \in 1..Len(ev) : FLeq(SemanticMatch(r.planned_action, ev[k].phrase), r.best_score)
    /\ AtBest(r, ev) # {}

BestIsFirst(r, ev) ==
    LET first == CHOOSE k \in AtBest(r, ev) : \A j \in AtBest(r, ev) : k <= j
    IN /\ r.best_match # None
       /\ r.best_match.timeline_item = ev[first].event
       /\ r.best_match.observed_action = ev[first].phrase
       /\ r.best_match.score = r.best_score
       /\ r.best_match.timestamp = timeline[ev[first].event].timestamp

\* C3 as stated: best_score is the maximum score over all (event, phrase) pairs of the
\* three phrase lists, and best_match references the first pair in scan order that
\* attains it.
C3_BestIsFirstMaximum ==
    Matched =>
        LET ev == Evidence(timeline, 1)
        IN ev # <<>> => \A r \in Results : BestIsMaximum(r, ev) /\ BestIsFirst(r, ev)

\* C3 as amended: best_score is the maximum score over all pairs (0 without any pair);
\* when it is above 0 best_match references the first pair in scan order that attains
\* it, a later pair with an equal score never replaces it; when it is 0 best_match is None.
C3_BestIsFirstPositiveMaximum ==
    Matched =>
        LET ev == Evidence(timeline, 1)
        IN \A r \in Results :
            /\ ev # <<>> => BestIsMaximum(r, ev)
            /\ ev = <<>> => r.best_score = Zero
            /\ FLt(Zero, r.best_score) => BestIsFirst(r, ev)
            /\ r.best_score = Zero => r.best_match = None

\* C3, witness: two events with different timestamps attain the same positive maximum,
\* and best_match references the earlier position
C3_Witness ==
    /\ Matched
    /\ \E r \in Results :
        LET ev == Evidence(timeline, 1)
        IN /\ FLt(Zero, r.best_score)
           /\ \E j, k \in AtBest(r, ev) :
                /\ ev[j].event < ev[k].event
                /\ timeline[ev[j].event].timestamp # timeline[ev[k].event].timestamp
           /\ BestIsFirst(r, ev)

\* C4: all_matches holds exactly one candidate for every (event, phrase) pair of the three
\* phrase lists whose score is >= threshold, and nothing else, in timeline order.
C4_AllMatchesCoverThreeLists ==
    Matched =>
        \A r \in Results :
            LET ev == Evidence(timeline, 1)
                above == SelectSeq(ev,
                    LAMBDA e : FLeq(threshold, SemanticMatch(r.planned_action, e.phrase)))
            IN r.all_matches =
                [k \in 1..Len(above) |->
                    [timeline_item |-> above[k].event,
                     observed_action |-> above[k].phrase,
                     score |-> SemanticMatch(r.planned_action, above[k].phrase),
                     timestamp |-> timeline[above[k].event].timestamp]]

\* C4 on one input: the step "click icon", one event whose only phrase "click icon" is a
\* UI element, threshold 0.5: the phrase scores 1.0, so all_matches has one candidate
C4_UiElementAboveThresholdIsListed ==
    (/\ Matched
     /\ threshold = Frac(1, 2)
     /\ Len(timeline) = 1
     /\ timeline[1].actions = <<>>
     /\ timeline[1].ui_elements = <<T_click_icon>>)
    => \A r \in Results : r.best_score = One => Len(r.all_matches) = 1

Deviations == {"skipped", "not_visible", "altered"}

\* C5: for a result with verdict deviation the category is exactly one of skipped (iff
\* best_score = 0), not_visible (iff 0 < best_score < 0.3), altered (iff 0.3 <= best_score
\* < threshold); a result with verdict observed gets no deviation category.
C5_CategoryByBand ==
    Matched =>
        \A i \in 1..Len(categories) :
            LET r == match_results[i]
                c == categories[i]
            IN /\ r.result = "deviation" =>
                    /\ c \in Deviations
                    /\ c = "skipped" <=> r.best_score = Zero
                    /\ c = "not_visible" <=>
                            (FLt(Zero, r.best_score) /\ FLt(r.best_score, Frac(3, 10)))
                    /\ c = "altered" <=>
                            (FLeq(Frac(3, 10), r.best_score) /\ FLt(r.best_score, threshold))
               /\ r.result = "observed" => c \notin Deviations

\* C5, witness: a deviation whose best score is exactly 0.3 is altered
C5_Witness ==
    /\ Matched
    /\ \E i \in 1..Len(categories) :
        /\ match_results[i].result = "deviation"
        /\ match_results[i].best_score = Frac(3, 10)
        /\ categories[i] = "altered"

EmptyTimelineResults ==
    /\ error = "none"
    /\ Len(match_results) = Len(planned_steps)
    /\ \A r \in Results :
        /\ r.result = "deviation"
        /\ ~r.is_matched
        /\ r.best_score = Zero
        /\ r.best_match = None
    /\ \A i \in 1..Len(categories) : categories[i] = "skipped"

\* C6 as stated: with an empty timeline and any threshold in [0,1], every step of a
\* non-empty step list ends as a deviation with best_score 0, no best_match and the
\* category skipped, without error.
C6_EmptyTimelineSkipsAll ==
    (Matched /\ timeline = <<>> /\ planned_steps # <<>>
        /\ FLeq(Zero, threshold) /\ FLeq(threshold, One))
    => EmptyTimelineResults

\* C6 as amended: the same for any threshold in (0,1]; with threshold 0 the best score 0
\* is >= threshold and the step is observed.
C6_EmptyTimelineSkipsAllPositiveThreshold ==
    (Matched /\ timeline = <<>> /\ planned_steps # <<>>
        /\ FLt(Zero, threshold) /\ FLeq(threshold, One))
    => EmptyTimelineResults

\* C6, witness: two steps matched against the empty timeline at threshold 0.5 and classified
C6_Witness ==
    /\ Matched
    /\ timeline = <<>>
    /\ threshold = Frac(1, 2)
    /\ Len(planned_steps) = 2
    /\ Len(categories) = 2
    /\ EmptyTimelineResults

\* 0 <= lowBand < threshold <= 1
BandsConsistent == FLeq(Zero, LowBand) /\ FLt(LowBand, threshold) /\ FLeq(threshold, One)

\* C7: a configuration without 0 <= lowBand < threshold <= 1 is rejected with a
\* configuration error at setup; no planned step is matched or classified under it.
C7_InconsistentBandsRejected ==
    (~BandsConsistent /\ planned_steps # <<>>) =>
        /\ match_results = <<>>
        /\ categories = <<>>
        /\ pc # "match" => error = "ConfigurationError"

\* C8: matching planned steps with a threshold outside [0,1] fails with a configuration
\* error and returns no match result.
C8_ThresholdOutOfRangeRejected ==
    ((FLt(threshold, Zero) \/ FLt(One, threshold)) /\ planned_steps # <<>>) =>
        /\ match_results = <<>>
        /\ pc # "match" => error = "ConfigurationError"

----------------------------------------------------------------------------
(* Frames of a video (src/src/tools/video_analyzer.py) *)

Digits == <<"0", "1", "2", "3", "4", "5", "6", "7", "8", "9">>

\* f"{n:02d}" for 0 <= n < 100
TwoDigits(n) == <<Digits[(n \div 10) + 1], Digits[(n % 10) + 1]>>

\* format_timestamp(seconds): MM:SS
format_timestamp(seconds) ==
    TwoDigits(seconds \div 60) \o <<":">> \o TwoDigits(seconds % 60)

\* The dict extract_frames appends for frame number frame_count of a video of 30 frames
\* per second
ExtractedFrame(frame_count) ==
    [frame_number |-> frame_count,
     timestamp |-> frame_count \div 30,
     timestamp_formatted |-> format_timestamp(frame_count \div 30),
     frame |-> "image"]

----------------------------------------------------------------------------
(* Timeline builder: build_action_timeline (src/src/tools/action_detector.py) *)

\* dict.get(key, default) on a dict modelled as a function of its keys
Get(d, key, default) == IF key \in DOMAIN d THEN d[key] ELSE default

\* The dict appended to the timeline for one frame
TimelineEntry(frame_data) ==
    [timestamp |-> Get(frame_data, "timestamp", 0),
     timestamp_formatted |-> Get(frame_data, "timestamp_formatted", <<"0", "0", ":", "0", "0">>),
     actions |-> Get(frame_data, "detected_actions", <<>>),
     ui_elements |-> Get(frame_data, "ui_elements", <<>>),
     text_content |-> Get(frame_data, "text_content", <<>>),
     description |-> Get(Get(frame_data, "analysis", <<>>), "description", <<>>),
     frame_number |-> Get(frame_data, "frame_number", 0)]

\* `if actions or ui_elements or text_content`: a list is true when it is not empty
HasEvidence(frame_data) ==
    \/ Get(frame_data, "detected_actions", <<>>) # <<>>
    \/ Get(frame_data, "ui_elements", <<>>) # <<>>
    \/ Get(frame_data, "text_content", <<>>) # <<>>

\* build_action_timeline keeping a frame only when its detected_actions are not empty
RECURSIVE build_action_timeline_actions_only(_)
build_action_timeline_actions_only(frames) ==
    IF frames = <<>> THEN <<>>
    ELSE LET frame_data == Head(frames)
             rest == build_action_timeline_actions_only(Tail(frames))
         IN IF Get(frame_data, "detected_actions", <<>>) # <<>>
            THEN <<TimelineEntry(frame_data)>> \o rest
            ELSE rest

\* The loop of build_action_timeline over the analyzed frames
RECURSIVE build_action_timeline(_)
build_action_timeline(frames) ==
    IF frames = <<>> THEN <<>>
    ELSE LET frame_data == Head(frames)
             rest == build_action_timeline(Tail(frames))
         IN IF HasEvidence(frame_data)
            THEN <<TimelineEntry(frame_data)>> \o rest
            ELSE rest

\* Bound of the model
MaxFrames == 3

\* Analyzed frames: all keys and evidence in two lists; the record analyze_frames builds
\* for a frame without image (no evidence); evidence in text_content only, no "analysis";
\* evidence but no timestamp; a timestamp and nothing else; a timestamp and one list
AnalyzedFramePool ==
    {[frame_number |-> 120, timestamp |-> 4, timestamp_formatted |-> format_timestamp(4),
      analysis |-> [description |-> T_click_icon],
      detected_actions |-> <<T_click>>, ui_elements |-> <<T_icon>>, text_content |-> <<>>],
     [frame_number |-> 60, timestamp |-> 2, timestamp_formatted |-> format_timestamp(2),
      analysis |-> [error |-> "No frame data"],
      detected_actions |-> <<>>, ui_elements |-> <<>>, text_content |-> <<>>],
     [frame_number |-> 60, timestamp |-> 2, timestamp_formatted |-> format_timestamp(2),
      detected_actions |-> <<>>, ui_elements |-> <<>>, text_content |-> <<T_icon>>],
     [frame_number |-> 180, detected_actions |-> <<T_click_enter>>,
      ui_elements |-> <<>>, text_content |-> <<>>],
     [timestamp |-> 6],
     [timestamp |-> 0, detected_actions |-> <<T_click>>]}

InitBuilder ==
    /\ analyzed_frames \in SeqsUpTo(AnalyzedFramePool, MaxFrames)
    /\ timeline = <<>>
    /\ video_frames = <<>>
    /\ unified_timeline = <<>>
    /\ planned_steps = <<>>
    /\ threshold = Frac(1, 2)
    /\ match_results = <<>>
    /\ categories = <<>>
    /\ planned_action = <<>>
    /\ observed_action = <<>>
    /\ similarity = <<>>
    /\ DriverIdle
    /\ UpstreamIdle
    /\ error = "none"
    /\ pc = "build"

\* timeline = build_action_timeline(analyzed_frames): every key is read with dict.get, no
\* exception is raised
BuildActionTimeline ==
    /\ pc = "build"
    /\ timeline' = build_action_timeline(analyzed_frames)
    /\ pc' = "built"
    /\ UNCHANGED <<planned_steps, threshold, match_results, categories, scorer_vars, frame_vars,
                   driver_vars, upstream_vars, error>>

NextBuilder == BuildActionTimeline

SpecBuilder == InitBuilder /\ [][NextBuilder]_vars

----------------------------------------------------------------------------
(* Properties of the timeline builder, under SpecBuilder *)

PhraseKeys == {"detected_actions", "ui_elements", "text_content"}

\* The phrase list of a frame record under a key, empty when the record has no such key
PhrasesOf(frame, key) == IF key \in DOMAIN frame THEN frame[key] ELSE <<>>

\* At least one of the three phrase lists of the record is not empty
CarriesEvidence(frame) == \E key \in PhraseKeys : PhrasesOf(frame, key) # <<>>

\* C11: build_action_timeline is a pure filter: the output holds exactly the records with
\* at least one non-empty phrase list, in the relative order of the input, each with its
\* timestamp and its three phrase lists copied unchanged; no event is added, no phrase
\* is invented.
C11_PureFilter ==
    pc = "built" =>
        LET kept == SelectSeq(analyzed_frames, CarriesEvidence)
        IN /\ error = "none"
           /\ Len(timeline) = Len(kept)
           /\ \A i \in 1..Len(kept) :
                /\ timeline[i].actions = PhrasesOf(kept[i], "detected_actions")
                /\ timeline[i].ui_elements = PhrasesOf(kept[i], "ui_elements")
                /\ timeline[i].text_content = PhrasesOf(kept[i], "text_content")
                /\ "timestamp" \in DOMAIN kept[i] => timeline[i].timestamp = kept[i].timestamp

\* C11, witness: of three frames the middle one carries no evidence and is dropped; the
\* two others are kept in input order although their timestamps decrease
C11_Witness ==
    /\ pc = "built"
    /\ Len(analyzed_frames) = 3
    /\ ~CarriesEvidence(analyzed_frames[2])
    /\ "timestamp" \in DOMAIN analyzed_frames[1]
    /\ "timestamp" \in DOMAIN analyzed_frames[3]
    /\ analyzed_frames[1].timestamp > analyzed_frames[3].timestamp
    /\ Len(timeline) = 2
    /\ timeline[1].timestamp = analyzed_frames[1].timestamp
    /\ timeline[2].timestamp = analyzed_frames[3].timestamp
    /\ timeline[2].text_content # <<>>

\* C12: build_action_timeline fails with an input error when a frame record lacks a
\* timestamp, and never emits an event whose timestamp was not in the input record;
\* records that lack only optional fields are accepted with those fields empty.
C12_MissingTimestampRejected ==
    pc = "built" =>
        /\ (\E i \in 1..Len(analyzed_frames) : "timestamp" \notin DOMAIN analyzed_frames[i])
                => (error = "InputError" /\ timeline = <<>>)
        /\ \A i \in 1..Len(timeline) :
                \E k \in 1..Len(analyzed_frames) :
                    /\ "timestamp" \in DOMAIN analyzed_frames[k]
                    /\ analyzed_frames[k].timestamp = timeline[i].timestamp
        /\ (\A i \in 1..Len(analyzed_frames) : "timestamp" \in DOMAIN analyzed_frames[i])
                => (error = "none"
                    /\ Len(timeline) = Len(SelectSeq(analyzed_frames, CarriesEvidence)))

\* C12 on one input: a single record with evidence and no timestamp yields no event
C12_NoEventWithoutTimestamp ==
    (pc = "built" /\ Len(analyzed_frames) = 1 /\ "timestamp" \notin DOMAIN analyzed_frames[1])
        => timeline = <<>>

----------------------------------------------------------------------------
(* Merging the frames of several videos: merge_video_timelines                *)
(* (src/src/tools/video_analyzer.py).  The dict video_frames is the sequence  *)
(* of its items in insertion order, the order dict.items() iterates in.       *)

\* {**frame, "source_video": video_path}
WithSource(frame, video_path) ==
    [key \in DOMAIN frame \cup {"source_video"} |->
        IF key = "source_video" THEN video_path ELSE frame[key]]

\* `for frame in frames: unified_timeline.append({**frame, "source_video": video_path})`
FramesOfVideo(item) ==
    [k \in 1..Len(item.frames) |-> WithSource(item.frames[k], item.video_path)]

\* `for video_path, frames in video_frames.items()`: the list before it is sorted
RECURSIVE AppendAllVideos(_)
AppendAllVideos(items) ==
    IF items = <<>> THEN <<>>
    ELSE FramesOfVideo(Head(items)) \o AppendAllVideos(Tail(items))

\* InsertSorted placing x before the elements with an equal timestamp
InsertSortedBeforeEqual(sorted, x) ==
    LET before == SelectSeq(sorted, LAMBDA y : y.timestamp < x.timestamp)
        after == SelectSeq(sorted, LAMBDA y : y.timestamp >= x.timestamp)
    IN before \o <<x>> \o after

\* One insertion of list.sort on a sorted prefix: x goes behind every element whose key
\* is not greater than its own, so that elements with equal keys keep their order
InsertSorted(sorted, x) ==
    LET before == SelectSeq(sorted, LAMBDA y : y.timestamp <= x.timestamp)
        after == SelectSeq(sorted, LAMBDA y : y.timestamp > x.timestamp)
    IN before \o <<x>> \o after

\* unified_timeline.sort(key=lambda x: x["timestamp"]) on the first n elements of list
RECURSIVE SortByTimestamp(_, _)
SortByTimestamp(list, n) ==
    IF n = 0 THEN <<>> ELSE InsertSorted(SortByTimestamp(list, n - 1), list[n])

merge_video_timelines(items) ==
    SortByTimestamp(AppendAllVideos(items), Len(AppendAllVideos(items)))

\* Bounds of the model
MaxVideos == 2

MaxVideoFrames == 2

VideoPaths == <<"a.webm", "b.webm", "c.webm">>

\* Frames as extract_frames and extract_key_frames build them: two of them with the same
\* timestamp
FramePool ==
    {ExtractedFrame(0),
     ExtractedFrame(60),
     [frame_number |-> 61, timestamp |-> 2, timestamp_formatted |-> format_timestamp(2),
      frame |-> "image", diff_score |-> 31]}

\* The dict whose keys are the first paths of VideoPaths and whose values are the lists
\* of frame_lists
VideoFrameDict(frame_lists) ==
    [i \in DOMAIN frame_lists |-> [video_path |-> VideoPaths[i], frames |-> frame_lists[i]]]

\* A dict of at most MaxVideos videos, each with at most MaxVideoFrames frames
InitMerge ==
    /\ \E n \in 0..Min(MaxVideos, Len(VideoPaths)) :
            \E frame_lists \in [1..n -> SeqsUpTo(FramePool, MaxVideoFrames)] :
                video_frames = VideoFrameDict(frame_lists)
    /\ unified_timeline = <<>>
    /\ analyzed_frames = <<>>
    /\ timeline = <<>>
    /\ planned_steps = <<>>
    /\ threshold = Frac(1, 2)
    /\ match_results = <<>>
    /\ categories = <<>>
    /\ planned_action = <<>>
    /\ observed_action = <<>>
    /\ similarity = <<>>
    /\ DriverIdle
    /\ UpstreamIdle
    /\ error = "none"
    /\ pc = "merge"

\* unified_timeline = merge_video_timelines(video_frames): every frame has a timestamp,
\* no exception is raised
MergeVideoTimelines ==
    /\ pc = "merge"
    /\ unified_timeline' = merge_video_timelines(video_frames)
    /\ pc' = "merged"
    /\ UNCHANGED <<matcher_vars, scorer_vars, analyzed_frames, video_frames, driver_vars,
                   upstream_vars, error>>

NextMerge == MergeVideoTimelines

SpecMerge == InitMerge /\ [][NextMerge]_vars

----------------------------------------------------------------------------
(* Properties of the merge, under SpecMerge *)

\* The input records in insertion order: sources in the order of the mapping, the records
\* of a source in the order of its list, each one with its source
RECURSIVE InsertionOrder(_, _)
InsertionOrder(items, i) ==
    IF i > Len(items) THEN <<>>
    ELSE [k \in 1..Len(items[i].frames) |->
            [source |-> items[i].video_path, record |-> items[i].frames[k]]]
         \o InsertionOrder(items, i + 1)

\* The record a merged entry was made from and its source
Origin(entry) ==
    [source |-> entry.source_video,
     record |-> [key \in DOMAIN entry \ {"source_video"} |-> entry[key]]]

\* C13: merge_video_timelines returns a sequence that holds every input record exactly
\* once (nothing lost, nothing deduplicated), is ordered by non-decreasing timestamp and
\* keeps records with equal timestamps in insertion order (sources in iteration order,
\* then the order of each source's list).
C13_StableMerge ==
    pc = "merged" =>
        LET inputs == InsertionOrder(video_frames, 1)
            merged == [k \in 1..Len(unified_timeline) |-> Origin(unified_timeline[k])]
        IN /\ error = "none"
           /\ Len(merged) = Len(inputs)
           /\ \A k \in 1..(Len(merged) - 1) :
                merged[k].record.timestamp <= merged[k + 1].record.timestamp
           /\ \A t \in {inputs[k].record.timestamp : k \in 1..Len(inputs)} :
                SelectSeq(merged, LAMBDA e : e.record.timestamp = t)
                    = SelectSeq(inputs, LAMBDA e : e.record.timestamp = t)

\* C13, witness: the second source holds a record earlier than the last of the first
\* source and one with the timestamp of a record of the first source; a record occurs
\* twice in the input and twice in the output
C13_Witness ==
    /\ pc = "merged"
    /\ Len(video_frames) = 2
    /\ Len(unified_timeline) = 4
    /\ video_frames[1].frames[2].timestamp > video_frames[2].frames[1].timestamp
    /\ video_frames[1].frames[2].timestamp = video_frames[2].frames[2].timestamp
    /\ video_frames[1].frames[2].frame_number > video_frames[2].frames[2].frame_number
    /\ video_frames[1].frames[1] = video_frames[2].frames[1]
    /\ unified_timeline[1].source_video = video_frames[1].video_path
    /\ unified_timeline[2].source_video = video_frames[2].video_path
    /\ unified_timeline[3].source_video = video_frames[1].video_path
    /\ unified_timeline[4].source_video = video_frames[2].video_path

----------------------------------------------------------------------------
(* Report generator (src/src/tools/report_generator.py).  A report is the    *)
(* record of what its lines say: the summary counts, the cross-reference to  *)
(* the test output, one row per result and one entry per deviation.  The     *)
(* line "Generated: <now>" and the two-decimal rendering of the scores are   *)
(* not modelled.                                                             *)

\* bool(x) of an optional dict
Truthy(x) == x # None

\* categorize_deviation_type with "not_visible" up to and including 0.3
categorize_deviation_type_closed_band(match_result) ==
    IF match_result.is_matched THEN "observed"
    ELSE IF match_result.best_score = Zero THEN "skipped"
    ELSE IF FLeq(match_result.best_score, LowBand) THEN "not_visible"
    ELSE "altered"

\* categorize_deviation_type of report_generator.py: the keys are read with .get
categorize_deviation_type(match_result) ==
    IF match_result.is_matched THEN "observed"
    ELSE IF match_result.best_score = Zero THEN "skipped"
    ELSE IF FLt(match_result.best_score, LowBand) THEN "not_visible"
    ELSE "altered"

\* sum(1 for r in match_results if r.get("result") == "observed")
ObservedCount(results) ==
    Cardinality({i \in 1..Len(results) : results[i].result = "observed"})

\* ReportSummary with a total of at least 1
ReportSummaryAtLeastOne(results) ==
    [total_steps |-> Max(Len(results), 1),
     observed_count |-> ObservedCount(results),
     deviation_count |-> Max(Len(results), 1) - ObservedCount(results)]

\* total_steps, observed_count and deviation_count of the "Summary" section
ReportSummary(results) ==
    [total_steps |-> Len(results),
     observed_count |-> ObservedCount(results),
     deviation_count |-> Len(results) - ObservedCount(results)]

\* The notes of one row of "Detailed Results"
RowNotes(result) ==
    IF ~result.is_matched
    THEN IF Truthy(result.best_match)
         THEN [kind |-> "Partial match", score |-> result.best_match.score]
         ELSE [kind |-> "Step in video", deviation_type |-> categorize_deviation_type(result)]
    ELSE IF Truthy(result.best_match)
            /\ Get(result.best_match, "timestamp_formatted", "") # ""
         THEN [kind |-> "Observed at", timestamp |-> result.best_match.timestamp_formatted]
         ELSE [kind |-> "-"]

\* `if len(planned_action) > 60: planned_action = planned_action[:57] + "..."`
Truncated(text) ==
    IF Len(text) > 60 THEN SubSeq(text, 1, 57) \o <<".", ".", ".">> ELSE text

\* planned_action.replace("<", "&lt;").replace(">", "&gt;")
RECURSIVE EscapeHtml(_)
EscapeHtml(text) ==
    IF text = <<>> THEN <<>>
    ELSE (IF Head(text) = "<" THEN <<"&", "l", "t", ";">>
          ELSE IF Head(text) = ">" THEN <<"&", "g", "t", ";">>
          ELSE <<Head(text)>>) \o EscapeHtml(Tail(text))

ResultSymbol(result) == IF result.result = "observed" THEN "Observed" ELSE "Deviation"

MarkdownRow(result) ==
    [planned_action |-> Truncated(result.planned_action),
     result_symbol |-> ResultSymbol(result),
     notes |-> RowNotes(result)]

HtmlRow(result) ==
    [planned_action |-> EscapeHtml(result.planned_action),
     result_symbol |-> ResultSymbol(result),
     notes |-> RowNotes(result)]

\* One entry of "Deviations Detail"
DeviationDetail(deviation) ==
    [planned_action |-> deviation.planned_action,
     deviation_type |-> categorize_deviation_type(deviation),
     closest_match |-> IF Truthy(deviation.best_match)
                       THEN [observed_action |-> deviation.best_match.observed_action,
                             score |-> deviation.best_match.score]
                       ELSE None]

\* "Test Output Cross-Reference": the outcome and the messages of the failures
CrossReference(output) ==
    IF Truthy(output)
    THEN [test_outcome |-> output.test_outcome, failures |-> output.failures]
    ELSE None

generate_markdown_report(results, output) ==
    [format |-> "markdown",
     summary |-> ReportSummary(results),
     cross_reference |-> CrossReference(output),
     rows |-> [i \in 1..Len(results) |-> MarkdownRow(results[i])],
     deviations |-> [k \in 1..Len(SelectSeq(results, LAMBDA r : r.result # "observed")) |->
                        DeviationDetail(SelectSeq(results,
                                                  LAMBDA r : r.result # "observed")[k])]]

generate_html_report(results, output) ==
    [format |-> "html",
     summary |-> ReportSummary(results),
     rows |-> [i \in 1..Len(results) |-> HtmlRow(results[i])]]

generate_deviation_report(results, output, output_format) ==
    IF output_format = "html"
    THEN generate_html_report(results, output)
    ELSE generate_markdown_report(results, output)

\* len(planned_action) and planned_action.replace raise on a planned_action that is no str
ReportRaises(results) == \E i \in 1..Len(results) : results[i].planned_action = NoText

----------------------------------------------------------------------------
(* Pipeline driver: main() (src/src/main.py), with the frames of          *)
(* process_multiple_videos and analyze_frames as its inputs.              *)

\* A planner message whose next_step and next_step_summary are null in the planning log
NullStep == [next_step_summary |-> NoText, next_step |-> NoText]

\* The steps of a plan, in plan order
Plan ==
    <<[next_step_summary |-> T_click_icon, next_step |-> T_open_menu],
      [next_step_summary |-> <<>>, next_step |-> T_enter],
      [next_step_summary |-> T_icon_menu, next_step |-> T_click_icon]>>

\* planning_data['steps'] of the planning logs: the first steps of the plan, a log with
\* a null step only and a log with a step followed by a null step
PlanningLogs ==
    {SubSeq(Plan, 1, Min(n, Len(Plan))) : n \in 0..MaxSteps}
    \cup {<<NullStep>>, <<Plan[1], NullStep>>}

\* extract_frames(video_path, 2.0) on a video of 30 frames per second with n sampled
\* frames: frame_interval is 60
ExtractedFrames(n) == [k \in 1..n |-> ExtractedFrame(60 * (k - 1))]

\* What analyze_frame_with_vision_api returns: the analysis of the description
\* "icon click enter", and the dict of its exception handler
AnalysisPool ==
    {[description |-> T_icon_click_enter, ui_elements |-> <<>>,
      actions |-> AnalysisPhrases, text_content |-> <<>>],
     [error |-> "APIError", description |-> "Error analyzing frame", ui_elements |-> <<>>,
      actions |-> <<>>, text_content |-> <<>>, notes |-> "Vision API call failed"]}

\* {**frame_data, "analysis": analysis, "detected_actions": ..., "ui_elements": ...,
\* "text_content": ...} of analyze_frames
AnalyzedFrame(frame_data, analysis) ==
    [key \in DOMAIN frame_data
             \cup {"analysis", "detected_actions", "ui_elements", "text_content"} |->
        IF key = "analysis" THEN analysis
        ELSE IF key = "detected_actions" THEN Get(analysis, "actions", <<>>)
        ELSE IF key = "ui_elements" THEN Get(analysis, "ui_elements", <<>>)
        ELSE IF key = "text_content" THEN Get(analysis, "text_content", <<>>)
        ELSE frame_data[key]]

\* `for video_path, frames in video_frames.items(): all_frames.extend(frames)`
RECURSIVE ExtendAll(_)
ExtendAll(items) ==
    IF items = <<>> THEN <<>> ELSE Head(items).frames \o ExtendAll(Tail(items))

\* The ways to analyze a list of frames: one analysis of the pool for each frame
RECURSIVE AnalysesOf(_)
AnalysesOf(frames) ==
    IF frames = <<>> THEN {<<>>}
    ELSE {<<AnalyzedFrame(Head(frames), analysis)>> \o rest :
            analysis \in AnalysisPool, rest \in AnalysesOf(Tail(frames))}

\* The dicts process_multiple_videos can return for the first n paths: a path that does
\* not exist has no item, a path that exists has the frames extract_frames returns
RECURSIVE ProcessedVideos(_)
ProcessedVideos(n) ==
    IF n = 0 THEN {<<>>}
    ELSE LET sampled == {<<[video_path |-> VideoPaths[n], frames |-> ExtractedFrames(k)]>> :
                            k \in 0..MaxVideoFrames}
         IN {items \o item : items \in ProcessedVideos(n - 1), item \in sampled \cup {<<>>}}

\* What parse_test_output returns
TestOutputs ==
    {[test_outcome |-> "passed", failures |-> <<>>],
     [test_outcome |-> "failed", failures |-> <<[message |-> "AssertionError"]>>]}

\* A console line of a stage: its number and whether it printed the tick or the cross
StageLine(stage, ok) == [stage |-> stage, ok |-> ok]

main_unset == <<categories, scorer_vars, unified_timeline, scans, runs, upstream_vars>>

InitMain ==
    /\ planned_steps = <<>>
    /\ timeline = <<>>
    /\ threshold = Frac(1, 2)
    /\ match_results = <<>>
    /\ categories = <<>>
    /\ planned_action = <<>>
    /\ observed_action = <<>>
    /\ similarity = <<>>
    /\ NoFrames
    /\ DriverIdle
    /\ UpstreamIdle
    /\ error = "none"
    /\ pc = "parse_planning_log"

\* The handler of a stage: print the cross and return
StageFails(stage, message) ==
    /\ console' = Append(console, StageLine(stage, FALSE))
    /\ error' = message
    /\ pc' = "returned"

\* Step 1: planning_data = parse_planning_log(args.log)
ParsePlanningLog ==
    /\ pc = "parse_planning_log"
    /\ planned_steps' \in PlanningLogs
    /\ console' = Append(console, StageLine(1, TRUE))
    /\ pc' = "process_videos"
    /\ UNCHANGED <<main_unset, threshold, timeline, match_results, analyzed_frames,
                   video_frames, test_output, report_content, saved_report, summary, error>>

\* Step 1: open or json.load raises
ParsePlanningLogFails ==
    /\ pc = "parse_planning_log"
    /\ StageFails(1, "Error parsing planning log")
    /\ UNCHANGED <<main_unset, matcher_vars, analyzed_frames, video_frames, test_output,
                   report_content, saved_report, summary>>

\* Step 2: video_frames = process_multiple_videos(args.video, interval_seconds=2.0)
ProcessMultipleVideos ==
    /\ pc = "process_videos"
    /\ \E n \in 1..Min(MaxVideos, Len(VideoPaths)) : video_frames' \in ProcessedVideos(n)
    /\ pc' = "analyze_frames"
    /\ UNCHANGED <<main_unset, matcher_vars, analyzed_frames, test_output, report_content,
                   saved_report, console, summary, error>>

\* Step 2: analyzed = analyze_frames(frames) and all_frames.extend(analyzed), video by video
AnalyzeFrames ==
    /\ pc = "analyze_frames"
    /\ analyzed_frames' \in AnalysesOf(ExtendAll(video_frames))
    /\ pc' = "build_timeline"
    /\ UNCHANGED <<main_unset, matcher_vars, video_frames, test_output, report_content,
                   saved_report, console, summary, error>>

\* Step 2: timeline = build_action_timeline(all_frames)
BuildTimeline ==
    /\ pc = "build_timeline"
    /\ timeline' = build_action_timeline(analyzed_frames)
    /\ console' = Append(console, StageLine(2, TRUE))
    /\ pc' = "parse_test_output"
    /\ UNCHANGED <<main_unset, planned_steps, threshold, match_results, analyzed_frames,
                   video_frames, test_output, report_content, saved_report, summary, error>>

\* Step 2: extract_frames cannot open a video, or the client of the vision API cannot be
\* created
AnalyzeVideoFails ==
    /\ pc \in {"process_videos", "analyze_frames"}
    /\ StageFails(2, "Error analyzing video")
    /\ UNCHANGED <<main_unset, matcher_vars, analyzed_frames, video_frames, test_output,
                   report_content, saved_report, summary>>

\* Step 3: test_output = parse_test_output(args.test_output)
ParseTestOutput ==
    /\ pc = "parse_test_output"
    /\ test_output' \in TestOutputs
    /\ console' = Append(console, StageLine(3, TRUE))
    /\ pc' = "match_steps"
    /\ UNCHANGED <<main_unset, matcher_vars, analyzed_frames, video_frames, report_content,
                   saved_report, summary, error>>

\* ParseTestOutputFails without the return of the handler
ParseTestOutputFailsContinues ==
    /\ pc = "parse_test_output"
    /\ console' = Append(console, StageLine(3, FALSE))
    /\ error' = "Error parsing test output"
    /\ pc' = "match_steps"
    /\ UNCHANGED <<main_unset, matcher_vars, analyzed_frames, video_frames, test_output,
                   report_content, saved_report, summary>>

\* Step 3: the file cannot be read or parsed
ParseTestOutputFails ==
    /\ pc = "parse_test_output"
    /\ StageFails(3, "Error parsing test output")
    /\ UNCHANGED <<main_unset, matcher_vars, analyzed_frames, video_frames, test_output,
                   report_content, saved_report, summary>>

\* semantic_match(None, observed) raises AttributeError: a step without text is compared
\* with a phrase
MatchRaises(steps, tl) ==
    /\ ScanOrder(tl, 1) # <<>>
    /\ \E i \in 1..Len(steps) : ComparisonText(steps[i]) = NoText

\* Step 4: match_results = match_all_steps(planning_data['steps'], timeline, threshold=0.5)
MatchSteps ==
    /\ pc = "match_steps"
    /\ ~MatchRaises(planned_steps, timeline)
    /\ match_results' = match_all_steps(planned_steps, timeline, threshold)
    /\ console' = Append(console, StageLine(4, TRUE))
    /\ pc' = "generate_report"
    /\ UNCHANGED <<main_unset, planned_steps, timeline, threshold, analyzed_frames,
                   video_frames, test_output, report_content, saved_report, summary, error>>

\* Step 4: match_all_steps raises, match_results is not bound
MatchStepsFails ==
    /\ pc = "match_steps"
    /\ MatchRaises(planned_steps, timeline)
    /\ StageFails(4, "Error matching steps")
    /\ UNCHANGED <<main_unset, matcher_vars, analyzed_frames, video_frames, test_output,
                   report_content, saved_report, summary>>

\* Step 5: report_content = generate_deviation_report(match_results, test_output,
\* output_format=args.format) and save_report(report_content, args.output)
GenerateReport ==
    /\ pc = "generate_report"
    /\ ~ReportRaises(match_results)
    /\ \E output_format \in {"markdown", "html"} :
          report_content' = generate_deviation_report(match_results, test_output, output_format)
    /\ saved_report' = report_content'
    /\ console' = Append(console, StageLine(5, TRUE))
    /\ pc' = "summary"
    /\ UNCHANGED <<main_unset, matcher_vars, analyzed_frames, video_frames, test_output,
                   summary, error>>

\* Step 5: generate_deviation_report raises on a result without text, or save_report
\* cannot create the file
GenerateReportFails ==
    /\ pc = "generate_report"
    /\ \/ /\ ReportRaises(match_results)
          /\ UNCHANGED report_content
       \/ /\ ~ReportRaises(match_results)
          /\ \E output_format \in {"markdown", "html"} :
                report_content' =
                    generate_deviation_report(match_results, test_output, output_format)
    /\ StageFails(5, "Error generating report")
    /\ UNCHANGED <<main_unset, matcher_vars, analyzed_frames, video_frames, test_output,
                   saved_report, summary>>

\* "Summary": total_steps, observed_count and deviation_count printed at the end
PrintSummary ==
    /\ pc = "summary"
    /\ summary' = [total_steps |-> Len(match_results),
                   observed_count |-> ObservedCount(match_results),
                   deviation_count |-> Len(match_results) - ObservedCount(match_results)]
    /\ pc' = "done"
    /\ UNCHANGED <<main_unset, matcher_vars, analyzed_frames, video_frames, test_output,
                   report_content, saved_report, console, error>>

NextMain ==
    \/ ParsePlanningLog
    \/ ParsePlanningLogFails
    \/ ProcessMultipleVideos
    \/ AnalyzeFrames
    \/ BuildTimeline
    \/ AnalyzeVideoFails
    \/ ParseTestOutput
    \/ ParseTestOutputFails
    \/ MatchSteps
    \/ MatchStepsFails
    \/ GenerateReport
    \/ GenerateReportFails
    \/ PrintSummary

SpecMain == InitMain /\ [][NextMain]_vars

----------------------------------------------------------------------------
(* Properties of the pipeline driver, under SpecMain *)

\* match_all_steps has been called, or is about to be called, with the timeline
TimelineHandedOver == pc \in {"match_steps", "generate_report", "summary", "done"}

Sorted(tl) == \A i, j \in 1..Len(tl) : i < j => tl[i].timestamp <= tl[j].timestamp

\* The timestamps of the events with a phrase that scores best_score for the result
TimestampsAtBest(r, tl) ==
    {tl[i].timestamp : i \in {k \in 1..Len(tl) :
        \E phrase \in Range(tl[k].actions \o tl[k].ui_elements \o tl[k].text_content) :
            SemanticMatch(r.planned_action, phrase) = r.best_score}}

\* C14: in main() the timeline handed to match_all_steps is ordered by non-decreasing
\* timestamp for any number of input videos, so that the first-encountered tie-break of
\* the matcher selects the event with the earliest timestamp.
C14_TimelineOrderedForMatcher ==
    /\ TimelineHandedOver => Sorted(timeline)
    /\ pc \in {"generate_report", "summary", "done"} =>
          \A i \in 1..Len(match_results) :
              match_results[i].best_match # None =>
                  \A t \in TimestampsAtBest(match_results[i], timeline) :
                      match_results[i].best_match.timestamp <= t

\* C14, second half alone: the best match of a step is never later than another event with
\* the same score
C14_BestMatchIsEarliest ==
    pc = "done" =>
        \A i \in 1..Len(match_results) :
            match_results[i].best_match # None =>
                \A t \in TimestampsAtBest(match_results[i], timeline) :
                    match_results[i].best_match.timestamp <= t

\* C14 for one video: the timeline handed over is ordered
C14_OneVideoOrdered ==
    (TimelineHandedOver /\ Len(video_frames) <= 1) => Sorted(timeline)

\* The lines of the stages are numbered 1, 2, ... and only the last one may be a cross
StagesInOrder ==
    \A i \in 1..Len(console) :
        /\ console[i].stage = i
        /\ i < Len(console) => console[i].ok

StageFailed == console # <<>> /\ ~console[Len(console)].ok

\* What holds of a report that was saved: the five stages completed in order and the report
\* covers the results of all planned steps
ReportIsComplete ==
    /\ console = [i \in 1..5 |-> StageLine(i, TRUE)]
    /\ Len(match_results) = Len(planned_steps)
    /\ \A i \in 1..Len(planned_steps) : match_results[i].planned_step = planned_steps[i]
    /\ saved_report.summary.total_steps = Len(planned_steps)
    /\ Len(saved_report.rows) = Len(planned_steps)

C20_FailOrCompleteState ==
    /\ StagesInOrder
    /\ StageFailed => (pc = "returned" /\ saved_report = None /\ summary = None)
    /\ saved_report # None => ReportIsComplete
    /\ pc = "done" => saved_report # None

\* C20: main() is fail-or-complete: the stages run in the order parse planning log, analyze
\* video(s), parse test output, match steps, generate report; when a stage raises no later
\* stage runs; a report is written only after all earlier stages completed for the full
\* step list, never from a partial result list.
C20_FailOrComplete ==
    /\ []C20_FailOrCompleteState
    /\ [][pc # "returned"]_vars

\* C20, witnesses: a run that completes with a report on two steps, and a run in which
\* matching raises on the second step after the first one was matched: nothing is saved
C20_Witness ==
    /\ pc = "done"
    /\ Len(planned_steps) = 2
    /\ timeline # <<>>
    /\ saved_report # None
    /\ ReportIsComplete
    /\ summary.total_steps = 2

C20_WitnessMatchFails ==
    /\ pc = "returned"
    /\ planned_steps = <<Plan[1], NullStep>>
    /\ console = <<StageLine(1, TRUE), StageLine(2, TRUE), StageLine(3, TRUE),
                   StageLine(4, FALSE)>>
    /\ match_results = <<>>
    /\ saved_report = None

----------------------------------------------------------------------------
(* The matcher followed by the report on its results: match_all_steps, then   *)
(* categorize_deviation per result and generate_deviation_report on the list  *)

\* generate_deviation_report(match_results, output_format=...) on the results of the
\* matcher, without test output
GenerateDeviationReport ==
    /\ pc = "matched"
    /\ report_content = None
    /\ \E output_format \in {"markdown", "html"} :
          report_content' = generate_deviation_report(match_results, test_output, output_format)
    /\ UNCHANGED <<matcher_vars, scorer_vars, frame_vars, test_output, saved_report, console,
                   summary, scans, runs, error, upstream_vars, pc>>

NextBatch == MatchAllSteps \/ Categorize \/ GenerateDeviationReport

SpecBatch == Init /\ [][NextBatch]_vars

----------------------------------------------------------------------------
(* Properties of the batch, under Spec and SpecBatch *)

\* C15: match_all_steps returns exactly one result per planned step, in input order: the
\* result list has the length of the step list, its i-th element is
\* match_step_with_timeline(steps[i], timeline, threshold) and references steps[i].
C15_OneResultPerStepInOrder ==
    Matched =>
        /\ Len(match_results) = Len(planned_steps)
        /\ \A i \in 1..Len(planned_steps) :
            /\ match_results[i].planned_step = planned_steps[i]
            /\ match_results[i] = match_step_with_timeline(planned_steps[i], timeline, threshold)

\* C15, witness: two different steps against a timeline with evidence, with different
\* results, each in the position of its step
C15_Witness ==
    /\ Matched
    /\ Len(planned_steps) = 2
    /\ planned_steps[1] # planned_steps[2]
    /\ timeline # <<>>
    /\ match_results[1].planned_step = planned_steps[1]
    /\ match_results[2].planned_step = planned_steps[2]
    /\ match_results[1].best_score # match_results[2].best_score
    /\ match_results[1].result # match_results[2].result

\* The number of results of a category
CountOf(category) ==
    Cardinality({i \in 1..Len(match_results) : categorize_deviation(match_results[i]) = category})

\* C16: the aggregate counts computed for a batch result are total, observed and one count
\* per deviation category (skipped, not_visible, altered), with
\* observed + skipped + not_visible + altered = total = number of planned steps.
C16_CountsPerCategory ==
    (report_content # None /\ planned_steps # <<>>) =>
        LET counts == report_content.summary
        IN /\ {"skipped", "not_visible", "altered"} \subseteq DOMAIN counts
           /\ counts.total_steps = Len(planned_steps)
           /\ counts.observed_count + counts.skipped + counts.not_visible + counts.altered
                = counts.total_steps

\* What the computed counts do satisfy: observed + deviations = total = number of planned
\* steps, and the categories of the results add up to the total
C16_ObservedPlusDeviations ==
    report_content # None =>
        LET counts == report_content.summary
        IN /\ DOMAIN counts = {"total_steps", "observed_count", "deviation_count"}
           /\ counts.total_steps = Len(planned_steps)
           /\ counts.observed_count + counts.deviation_count = counts.total_steps
           /\ counts.observed_count = CountOf("observed")
           /\ counts.deviation_count
                = CountOf("skipped") + CountOf("not_visible") + CountOf("altered")

\* C17: for every timeline and every threshold, match_all_steps on an empty step list
\* returns an empty result list without error, and the aggregates derived from it (total,
\* observed, deviations) are all zero.
C17_EmptyStepList ==
    (Matched /\ planned_steps = <<>>) =>
        /\ error = "none"
        /\ match_results = <<>>
        /\ categories = <<>>
        /\ report_content # None =>
              /\ report_content.summary.total_steps = 0
              /\ report_content.summary.observed_count = 0
              /\ report_content.summary.deviation_count = 0
              /\ report_content.rows = <<>>

\* C17, witness: the empty step list against a timeline of two events at a threshold that
\* every score reaches, with the report generated
C17_Witness ==
    /\ Matched
    /\ planned_steps = <<>>
    /\ Len(timeline) = 2
    /\ threshold = Zero
    /\ match_results = <<>>
    /\ report_content # None
    /\ report_content.summary = [total_steps |-> 0, observed_count |-> 0, deviation_count |-> 0]

----------------------------------------------------------------------------
(* Runs of the matcher, call by call: every call of match_step_with_timeline  *)
(* has its own best_match, best_score and matches and visits the phrases of   *)
(* the timeline in order.  The calls of one run are made by workers; a worker *)
(* makes one call at a time, the calls of different workers interleave phrase *)
(* by phrase.  With one worker taking the steps in order this is the loop of  *)
(* match_all_steps.                                                           *)

\* Bounds of the model
MaxWorkers == 2

MaxRuns == 3

Workers == 1..MaxWorkers

EventClickEnter == CHOOSE e \in EventPool : e.actions = <<T_click_enter>>

EventAt12 == CHOOSE e \in EventPool : e.timestamp = 12

\* The inputs of the runs
RunInputs ==
    {[steps |-> <<Plan[1], Plan[2]>>, timeline |-> <<EventClickEnter, EventAt12>>,
      threshold |-> Frac(1, 2)],
     [steps |-> <<Plan[3], Plan[1]>>, timeline |-> <<EventAt12>>, threshold |-> Frac(1, 5)]}

\* NewScan with the default-argument list of an earlier call for matches
NewScanKeepsMatches(previous) ==
    [best_score |-> Zero, best_match |-> None, matches |-> previous.matches]

\* NewScan with the best match of an earlier call
NewScanKeepsBest(previous) ==
    [best_score |-> previous.best_score, best_match |-> previous.best_match, matches |-> <<>>]

\* best_match = None, best_score = 0.0, matches = []: the locals of a call, whatever an
\* earlier call left in its own
NewScan(previous) ==
    [best_score |-> Zero, best_match |-> None, matches |-> <<>>]

\* A worker that has made no call
IdleWorker ==
    [busy |-> FALSE, step |-> 0, next |-> 1,
     acc |-> [best_score |-> Zero, best_match |-> None, matches |-> <<>>]]

InitRuns ==
    /\ planned_steps = <<>>
    /\ timeline = <<>>
    /\ threshold = Frac(1, 2)
    /\ match_results = <<>>
    /\ categories = <<>>
    /\ planned_action = <<>>
    /\ observed_action = <<>>
    /\ similarity = <<>>
    /\ NoFrames
    /\ test_output = None
    /\ report_content = None
    /\ saved_report = None
    /\ console = <<>>
    /\ summary = None
    /\ scans = [w \in Workers |-> IdleWorker]
    /\ runs = <<>>
    /\ UpstreamIdle
    /\ error = "none"
    /\ pc = "idle"

runs_unset == <<scorer_vars, frame_vars, upstream_vars, test_output, report_content,
                saved_report, console, summary, error>>

\* match_all_steps(planned_steps, timeline, threshold) is called: results = []
StartRun ==
    /\ pc = "idle"
    /\ Len(runs) < MaxRuns
    /\ \E input \in RunInputs :
          /\ planned_steps' = input.steps
          /\ timeline' = input.timeline
          /\ threshold' = input.threshold
          /\ match_results' = [i \in 1..Len(input.steps) |-> None]
    /\ categories' = <<>>
    /\ pc' = "running"
    /\ UNCHANGED <<runs_unset, scans, runs>>

\* The steps no call was made for
Unclaimed ==
    {i \in 1..Len(planned_steps) :
        /\ match_results[i] = None
        /\ \A w \in Workers : ~(scans[w].busy /\ scans[w].step = i)}

\* match_step_with_timeline(planned_steps[i], timeline, threshold) is called by worker w,
\* for a step i no call was made for
BeginCall(w) ==
    /\ pc = "running"
    /\ ~scans[w].busy
    /\ \E i \in Unclaimed :
          scans' = [scans EXCEPT ![w] =
                      [busy |-> TRUE, step |-> i, next |-> 1, acc |-> NewScan(scans[w].acc)]]
    /\ UNCHANGED <<runs_unset, matcher_vars, runs, pc>>

\* One iteration of the loops of the call of worker w: the next phrase is scored
ScanNext(w) ==
    /\ pc = "running"
    /\ scans[w].busy
    /\ scans[w].next <= Len(ScanOrder(timeline, 1))
    /\ scans' = [scans EXCEPT ![w] =
                    [busy |-> TRUE, step |-> scans[w].step, next |-> scans[w].next + 1,
                     acc |-> ScanStep(scans[w].acc, timeline,
                                      ScanOrder(timeline, 1)[scans[w].next],
                                      SemanticMatch(ComparisonText(planned_steps[scans[w].step]),
                                                    ScanOrder(timeline, 1)[scans[w].next].phrase),
                                      threshold)]]
    /\ UNCHANGED <<runs_unset, matcher_vars, runs, pc>>

\* The call of worker w returns; its result takes the place of its step in the results
ReturnResult(w) ==
    /\ pc = "running"
    /\ scans[w].busy
    /\ scans[w].next > Len(ScanOrder(timeline, 1))
    /\ match_results' = [match_results EXCEPT ![scans[w].step] =
                            MatchResult(planned_steps[scans[w].step],
                                        ComparisonText(planned_steps[scans[w].step]),
                                        scans[w].acc, threshold)]
    /\ scans' = [scans EXCEPT ![w].busy = FALSE]
    /\ UNCHANGED <<runs_unset, planned_steps, timeline, threshold, categories, runs, pc>>

\* match_all_steps returns, categorize_deviation is applied to each result
FinishRun ==
    /\ pc = "running"
    /\ \A i \in 1..Len(planned_steps) : match_results[i] # None
    /\ categories' = [i \in 1..Len(match_results) |-> categorize_deviation(match_results[i])]
    /\ runs' = Append(runs, [steps |-> planned_steps, timeline |-> timeline,
                             threshold |-> threshold, results |-> match_results,
                             categories |-> categories'])
    /\ pc' = "idle"
    /\ UNCHANGED <<runs_unset, planned_steps, timeline, threshold, match_results, scans>>

NextRuns ==
    \/ StartRun
    \/ \E w \in Workers : BeginCall(w)
    \/ \E w \in Workers : ScanNext(w)
    \/ \E w \in Workers : ReturnResult(w)
    \/ FinishRun

SpecRuns == InitRuns /\ [][NextRuns]_vars

----------------------------------------------------------------------------
(* Properties of the runs                                                     *)

SameInput(a, b) ==
    /\ a.steps = b.steps
    /\ a.timeline = b.timeline
    /\ a.threshold = b.threshold

\* C18: two runs of match_all_steps, each followed by categorize_deviation on every
\* result, on identical steps, timeline and threshold produce identical result lists,
\* whatever runs were executed in between.
C18_RunsDeterministic ==
    \A a, b \in 1..Len(runs) :
        SameInput(runs[a], runs[b])
            => /\ runs[a].results = runs[b].results
               /\ runs[a].categories = runs[b].categories

\* C18, witness: three runs are finished, the first and the third on the same input with
\* matches collected, the one in between on another input with another outcome
C18_Witness ==
    /\ Len(runs) = 3
    /\ SameInput(runs[1], runs[3])
    /\ ~SameInput(runs[2], runs[1])
    /\ runs[2].results # runs[1].results
    /\ \E i \in 1..Len(runs[1].results) : runs[1].results[i].all_matches # <<>>
    /\ runs[3].results = runs[1].results

\* C19: the scans of the steps, made in any order and interleaved across workers, each
\* result placed at the index of its step, give the result list of the sequential loop of
\* match_all_steps: every result placed, and every finished run, is the one of that loop.
C19_InterleavedEqualsSequential ==
    /\ pc = "running" =>
          \A i \in 1..Len(planned_steps) :
              match_results[i] # None
                  => match_results[i] = match_all_steps(planned_steps, timeline, threshold)[i]
    /\ \A r \in 1..Len(runs) :
          runs[r].results = match_all_steps(runs[r].steps, runs[r].timeline, runs[r].threshold)

\* C19, witness: the result of the second step is placed while the call for the first
\* step, begun by the other worker, is between the two events of the timeline
C19_Witness ==
    /\ pc = "running"
    /\ Len(planned_steps) = 2
    /\ Len(timeline) = 2
    /\ match_results[1] = None
    /\ match_results[2] # None
    /\ match_results[2].best_match # None
    /\ \E w \in Workers :
          /\ scans[w].busy
          /\ scans[w].step = 1
          /\ scans[w].next > 1
          /\ scans[w].next <= Len(ScanOrder(timeline, 1))

----------------------------------------------------------------------------
(* Upstream of the timeline: process_multiple_videos                          *)
(* (src/src/tools/video_analyzer.py) over paths whose files are missing,      *)
(* cannot be opened or can be read, then analyze_frames                       *)
(* (src/src/tools/action_detector.py) over the frames it returned.            *)

\* os.path.exists(video_path) is false
MissingFile == [exists |-> FALSE, opens |-> FALSE, sampled |-> 0]

\* The file exists and cap.isOpened() is false
UnreadableFile == [exists |-> TRUE, opens |-> FALSE, sampled |-> 0]

\* The file exists, opens and has n sampled frames
ReadableFile(n) == [exists |-> TRUE, opens |-> TRUE, sampled |-> n]

FilePool == {MissingFile, UnreadableFile} \cup {ReadableFile(n) : n \in 0..MaxVideoFrames}

\* all_frames[video_path] = frames: the item of a key that is there is replaced in its
\* place, the item of a new key goes to the end
DictSet(items, video_path, frames) ==
    IF \E i \in 1..Len(items) : items[i].video_path = video_path
    THEN [i \in 1..Len(items) |->
            IF items[i].video_path = video_path
            THEN [video_path |-> video_path, frames |-> frames] ELSE items[i]]
    ELSE Append(items, [video_path |-> video_path, frames |-> frames])

\* The line printed for a path that does not exist
Warning(video_path) == [warning |-> video_path]

\* The loop of process_multiple_videos from the i-th path on: a path that does not exist
\* is printed and skipped, the ValueError of extract_frames on a file that does not open
\* ends the loop and the call
RECURSIVE ProcessVideosFrom(_, _, _, _)
ProcessVideosFrom(paths, fs, i, state) ==
    IF i > Len(paths) THEN state
    ELSE IF ~fs[paths[i]].exists
    THEN ProcessVideosFrom(paths, fs, i + 1,
            [state EXCEPT !.printed = Append(@, Warning(paths[i]))])
    ELSE IF ~fs[paths[i]].opens
    THEN [state EXCEPT !.raised = TRUE]
    ELSE ProcessVideosFrom(paths, fs, i + 1,
            [state EXCEPT !.all_frames =
                DictSet(@, paths[i], ExtractedFrames(fs[paths[i]].sampled))])

\* all_frames = {} and the loop
process_multiple_videos(paths, fs) ==
    ProcessVideosFrom(paths, fs, 1, [raised |-> FALSE, all_frames |-> <<>>, printed |-> <<>>])

InitUpstream ==
    /\ \E n \in 1..Min(MaxVideos, Len(VideoPaths)) :
          /\ video_paths = SubSeq(VideoPaths, 1, n)
          /\ files \in [{VideoPaths[i] : i \in 1..n} -> FilePool]
    /\ NoCapture
    /\ NoDescription
    /\ planned_steps = <<>>
    /\ timeline = <<>>
    /\ threshold = Frac(1, 2)
    /\ match_results = <<>>
    /\ categories = <<>>
    /\ planned_action = <<>>
    /\ observed_action = <<>>
    /\ similarity = <<>>
    /\ NoFrames
    /\ DriverIdle
    /\ error = "none"
    /\ pc = "process_videos"

\* video_frames = process_multiple_videos(video_paths): what it printed is on the
\* console; when extract_frames raises, nothing is returned
ProcessVideos ==
    /\ pc = "process_videos"
    /\ console' = console \o process_multiple_videos(video_paths, files).printed
    /\ IF process_multiple_videos(video_paths, files).raised
       THEN /\ error' = "ValueError"
            /\ pc' = "raised"
            /\ UNCHANGED video_frames
       ELSE /\ video_frames' = process_multiple_videos(video_paths, files).all_frames
            /\ pc' = "analyze_frames"
            /\ UNCHANGED error
    /\ UNCHANGED <<matcher_vars, scorer_vars, analyzed_frames, unified_timeline, test_output,
                   report_content, saved_report, summary, scans, runs, upstream_vars>>

NextUpstream == ProcessVideos \/ AnalyzeFrames

SpecUpstream == InitUpstream /\ [][NextUpstream]_vars

----------------------------------------------------------------------------
(* Properties of the upstream calls                                           *)

PathsOf(items) == {items[i].video_path : i \in 1..Len(items)}

Usable(file) == file.exists /\ file.opens

\* The videos that can be read have their frames in the mapping, in the order of the
\* paths; each of the others has its line on the console and no item
EveryVideoHandled ==
    /\ \A i \in 1..Len(video_paths) :
          IF Usable(files[video_paths[i]])
          THEN \E k \in 1..Len(video_frames) :
                  /\ video_frames[k].video_path = video_paths[i]
                  /\ Len(video_frames[k].frames) = files[video_paths[i]].sampled
          ELSE /\ video_paths[i] \notin PathsOf(video_frames)
               /\ \E k \in 1..Len(console) : console[k] = Warning(video_paths[i])
    /\ Len(console) = Cardinality({i \in 1..Len(video_paths) : ~Usable(files[video_paths[i]])})

\* analyze_frames returned one record per frame, in the order of the frames, each with
\* the fields of its frame; a record whose description call failed has no phrase
OneRecordPerFrame ==
    /\ Len(analyzed_frames) = Len(ExtendAll(video_frames))
    /\ \A k \in 1..Len(analyzed_frames) :
          /\ \A key \in DOMAIN ExtendAll(video_frames)[k] :
                analyzed_frames[k][key] = ExtendAll(video_frames)[k][key]
          /\ "error" \in DOMAIN analyzed_frames[k].analysis
                => /\ analyzed_frames[k].detected_actions = <<>>
                   /\ analyzed_frames[k].ui_elements = <<>>
                   /\ analyzed_frames[k].text_content = <<>>

\* C21: a failure on one upstream item (a video that is missing or cannot be opened, a
\* description-service error on one frame) is reported for that item only and the run
\* goes on: the remaining videos and frames are processed, analyze_frames returns one
\* record per frame in order, and a frame whose description failed has empty phrase sets.
C21_PerItemRecovery ==
    /\ pc # "process_videos" => (error = "none" /\ EveryVideoHandled)
    /\ pc = "build_timeline" => OneRecordPerFrame

\* C21 without a file that does not open: missing videos are skipped with a warning
\* and the frames of the others are analyzed one record per frame
C21_MissingVideoSkipped ==
    (\A i \in 1..Len(video_paths) : files[video_paths[i]] # UnreadableFile)
        => C21_PerItemRecovery

\* C21 on one input: the first of two videos does not open and the second has a frame
C21_SecondVideoLost ==
    (/\ pc # "process_videos"
     /\ Len(video_paths) = 2
     /\ files[video_paths[1]] = UnreadableFile
     /\ files[video_paths[2]] = ReadableFile(1))
        => video_paths[2] \in PathsOf(video_frames)

----------------------------------------------------------------------------
(* The scenarios: one step of ScenarioSteps matched against a timeline of     *)
(* ScenarioEvents at the default threshold 0.5, then categorized              *)

InitScenario ==
    /\ \E step \in ScenarioSteps : planned_steps = <<step>>
    /\ timeline \in SeqsUpTo(ScenarioEvents, MaxEvents)
    /\ threshold = Frac(1, 2)
    /\ match_results = <<>>
    /\ categories = <<>>
    /\ planned_action = <<>>
    /\ observed_action = <<>>
    /\ similarity = <<>>
    /\ NoFrames
    /\ DriverIdle
    /\ UpstreamIdle
    /\ error = "none"
    /\ pc = "match"

SpecScenario == InitScenario /\ [][Next]_vars

----------------------------------------------------------------------------
(* Properties of the scenarios                                                *)

\* The phrases of an event, of its three lists
PhrasesOfEvent(event) ==
    Range(event.actions) \cup Range(event.ui_elements) \cup Range(event.text_content)

\* The phrase has the word among its whitespace-separated lower-cased tokens
Mentions(phrase, word) == word \in Range(Tokens(lower(phrase)))

T_password == <<"p", "a", "s", "s", "w", "o", "r", "d">>

T_login == <<"l", "o", "g", "i", "n">>

T_field == <<"f", "i", "e", "l", "d">>

NoEventMentions(tl, words) ==
    \A i \in 1..Len(tl) : \A phrase \in PhrasesOfEvent(tl[i]) : \A word \in words :
        ~Mentions(phrase, word)

SkippedAtZero ==
    /\ match_results[1].best_score = Zero
    /\ categories # <<>> => categories[1] = "skipped"

\* C22: for the planned step "Enter password into login field" and every timeline in
\* which no phrase of any event mentions enter, password or login,
\* match_step_with_timeline returns best_score 0.0 and categorize_deviation returns
\* "skipped".
C22_NoMentionIsSkipped ==
    (/\ Matched
     /\ planned_steps = <<EnterPasswordStep>>
     /\ NoEventMentions(timeline, {T_enter, T_password, T_login}))
        => SkippedAtZero

\* C22 on one input: the only phrase of the timeline is "Center panel"
C22_CenterPanelIsSkipped ==
    (/\ Matched
     /\ planned_steps = <<EnterPasswordStep>>
     /\ Len(timeline) = 1
     /\ timeline[1].text_content = <<T_Center_panel>>)
        => SkippedAtZero

\* C22 for the timelines no phrase of which contains "enter" or "field", inside a word or
\* as a word: the score is 0.0 and the category "skipped"
C22_NoEnterNoFieldInsideIsSkipped ==
    (/\ Matched
     /\ planned_steps = <<EnterPasswordStep>>
     /\ \A i \in 1..Len(timeline) : \A phrase \in PhrasesOfEvent(timeline[i]) :
            ~Contains(lower(phrase), T_enter) /\ ~Contains(lower(phrase), T_field))
        => SkippedAtZero

\* The scores of the phrases of an event for the comparison text of the step matched
PhraseScores(event) ==
    {SemanticMatch(ComparisonText(planned_steps[1]), phrase) : phrase \in PhrasesOfEvent(event)}

\* A phrase of an earlier event scores at least as high as every phrase of event k, or a
\* phrase of a later event scores strictly higher
Overtaken(tl, k) ==
    \E i \in 1..Len(tl) : \E score \in PhraseScores(tl[i]) :
        /\ i # k
        /\ \A own \in PhraseScores(tl[k]) :
              IF i < k THEN FLeq(own, score) ELSE FLt(own, score)

ClickSearchMatched ==
    /\ Matched
    /\ planned_steps = <<ClickSearchStep>>
    /\ \E k \in 1..Len(timeline) : timeline[k] = EventAt0005

\* The overlaps of semantic_match for the summary and the action phrase of the event at
\* 00:05, the score and the verdict
ClickSearchObserved ==
    /\ Overlap(ActionsIn(lower(T_Click_the_Search_icon)),
               ActionsIn(lower(T_click_search_icon))) = One
    /\ FLt(Zero, Overlap(extract_objects(T_Click_the_Search_icon),
                         extract_objects(T_click_search_icon)))
    /\ FLeq(Frac(1, 2), match_results[1].best_score)
    /\ match_results[1].is_matched
    /\ match_results[1].result = "observed"
    /\ match_results[1].best_match # None

\* C23 as stated: for a step whose summary is "Click the Search icon" and a timeline
\* containing the event at 00:05 with the action phrase "click search icon", the action
\* overlap is 1.0, the object overlap is > 0, best_score >= 0.5, the verdict at threshold
\* 0.5 is observed and best_match references the 00:05 event.
C23_BestMatchIsEventAt0005 ==
    ClickSearchMatched
        => /\ ClickSearchObserved
           /\ timeline[match_results[1].best_match.timeline_item] = EventAt0005

\* C23, amended: the overlaps, the score and the verdict are as stated, and best_match
\* references the 00:05 event exactly when no phrase of an earlier event scores at least
\* as high as its best phrase and no phrase of a later event scores strictly higher.
C23_BestMatchIsEventAt0005UnlessOvertaken ==
    ClickSearchMatched
        => /\ ClickSearchObserved
           /\ timeline[match_results[1].best_match.timeline_item] = EventAt0005
                <=> \E k \in 1..Len(timeline) :
                        timeline[k] = EventAt0005 /\ ~Overtaken(timeline, k)

\* C23, witness: the event at 00:05 follows an event with a lower positive score and is
\* the best match with 13/15
C23_Witness ==
    /\ Matched
    /\ planned_steps = <<ClickSearchStep>>
    /\ Len(timeline) = 2
    /\ timeline[1].actions = <<T_click_search_field>>
    /\ timeline[2] = EventAt0005
    /\ match_results[1].best_score = Frac(13, 15)
    /\ match_results[1].best_match.timeline_item = 2
    /\ match_results[1].best_match.timestamp = 5
    /\ categories = <<"observed">>

----------------------------------------------------------------------------
(* Properties of the comparison text                                          *)

\* The result of the scan of the timeline for one text
ResultFor(planned_step, text) ==
    MatchResult(planned_step, text, ScanFor(text, timeline, ScanOrder(timeline, 1), threshold),
                threshold)

\* C24: the text compared against the evidence of a planned step is its summary
\* (next_step_summary) whenever that is non-empty and its description (next_step)
\* otherwise; the description is never used when there is a non-empty summary, and
\* planned_action in the result is the text that was compared.
C24_SummaryElseDescription ==
    Matched =>
        \A i \in 1..Len(planned_steps) :
            IF planned_steps[i].next_step_summary # <<>>
            THEN /\ match_results[i].planned_action = planned_steps[i].next_step_summary
                 /\ match_results[i] = ResultFor(planned_steps[i],
                                                 planned_steps[i].next_step_summary)
            ELSE /\ match_results[i].planned_action = planned_steps[i].next_step
                 /\ match_results[i] = ResultFor(planned_steps[i], planned_steps[i].next_step)

\* C24, witness: a step with the summary "icon menu" and the description "click icon" is
\* matched against the phrase "click icon", which its description equals, and scores
\* below 1; a step without summary is matched by its description
C24_Witness ==
    /\ Matched
    /\ Len(planned_steps) = 2
    /\ planned_steps[1].next_step_summary = T_icon_menu
    /\ planned_steps[1].next_step = T_click_icon
    /\ planned_steps[2].next_step_summary = <<>>
    /\ \E i \in 1..Len(timeline) : timeline[i].ui_elements = <<T_click_icon>>
    /\ match_results[1].planned_action = T_icon_menu
    /\ FLt(Zero, match_results[1].best_score)
    /\ FLt(match_results[1].best_score, One)
    /\ ResultFor(planned_steps[1], planned_steps[1].next_step).best_score = One
    /\ match_results[2].planned_action = T_enter

----------------------------------------------------------------------------
(* The calls of the pure functions one after the other, each on its own       *)
(* input: merge_video_timelines on a mapping of frames, build_action_timeline *)
(* on analyzed frames, match_all_steps on the timeline built and              *)
(* categorize_deviation on each result                                        *)

InitCalls ==
    /\ \E frame_lists \in [1..1 -> SeqsUpTo(FramePool, MaxVideoFrames)] :
          video_frames = VideoFrameDict(frame_lists)
    /\ analyzed_frames \in SeqsOfLen(AnalyzedFramePool, 2)
    /\ planned_steps = <<Plan[1], Plan[2]>>
    /\ unified_timeline = <<>>
    /\ timeline = <<>>
    /\ threshold = Frac(1, 2)
    /\ match_results = <<>>
    /\ categories = <<>>
    /\ planned_action = <<>>
    /\ observed_action = <<>>
    /\ similarity = <<>>
    /\ DriverIdle
    /\ UpstreamIdle
    /\ error = "none"
    /\ pc = "merge"

\* CallMergeVideoTimelines with `frame["source_video"] = video_path` on the frames of the
\* mapping instead of the copies {**frame, "source_video": video_path}
CallMergeVideoTimelinesInPlace ==
    /\ pc = "merge"
    /\ video_frames' = [i \in 1..Len(video_frames) |->
                           [video_path |-> video_frames[i].video_path,
                            frames |-> FramesOfVideo(video_frames[i])]]
    /\ unified_timeline' = merge_video_timelines(video_frames)
    /\ pc' = "build"
    /\ UNCHANGED <<matcher_vars, scorer_vars, analyzed_frames, driver_vars, upstream_vars,
                   error>>

\* unified = merge_video_timelines(video_frames): the frames are copied into new dicts,
\* the new list is sorted
CallMergeVideoTimelines ==
    /\ pc = "merge"
    /\ unified_timeline' = merge_video_timelines(video_frames)
    /\ pc' = "build"
    /\ UNCHANGED <<matcher_vars, scorer_vars, analyzed_frames, video_frames, driver_vars,
                   upstream_vars, error>>

\* timeline = build_action_timeline(analyzed_frames): the entries are new dicts
CallBuildActionTimeline ==
    /\ pc = "build"
    /\ timeline' = build_action_timeline(analyzed_frames)
    /\ pc' = "match"
    /\ UNCHANGED <<planned_steps, threshold, match_results, categories, scorer_vars, frame_vars,
                   driver_vars, upstream_vars, error>>

NextCalls == CallMergeVideoTimelines \/ CallBuildActionTimeline \/ MatchAllSteps \/ Categorize

SpecCalls == InitCalls /\ [][NextCalls]_vars

----------------------------------------------------------------------------
(* Properties of the calls                                                    *)

\* C25: the inputs are read-only: a call of merge_video_timelines,
\* build_action_timeline, match_all_steps (of match_step_with_timeline for each step) or
\* categorize_deviation leaves the planned steps, the frame records and, once it is passed
\* to the matcher, the timeline as they were, in order, length and every field.
C25_InputsReadOnly ==
    [][/\ planned_steps' = planned_steps
       /\ video_frames' = video_frames
       /\ analyzed_frames' = analyzed_frames
       /\ pc \in {"match", "matched"} => timeline' = timeline]_vars

\* C25, the inputs after the calls: frames without source_video in the mapping, the two
\* analyzed frames, the two steps
C25_InputsAsGiven ==
    /\ \A i \in 1..Len(video_frames) : \A k \in 1..Len(video_frames[i].frames) :
          "source_video" \notin DOMAIN video_frames[i].frames[k]
    /\ Len(analyzed_frames) = 2
    /\ \A k \in 1..Len(analyzed_frames) : analyzed_frames[k] \in AnalyzedFramePool
    /\ planned_steps = <<Plan[1], Plan[2]>>
    /\ Matched => timeline = build_action_timeline(analyzed_frames)

\* C25, witness: every function has been called: two frames are merged into a new list
\* that is in another order than the mapping's, a timeline is built, both steps are
\* matched, one with a best match, and categorized
C25_Witness ==
    /\ Matched
    /\ Len(unified_timeline) = 2
    /\ unified_timeline[1].frame_number = video_frames[1].frames[2].frame_number
    /\ unified_timeline[1].timestamp < unified_timeline[2].timestamp
    /\ timeline # <<>>
    /\ Len(match_results) = 2
    /\ match_results[1].best_match # None
    /\ Len(categories) = 2

----------------------------------------------------------------------------
(* Properties of best_match                                                   *)

\* C26: in every result of match_step_with_timeline best_match is None if and only if
\* best_score is 0.0; when best_match is there, its score is best_score and is > 0, and
\* its timeline_item is an event of the timeline given that has the observed phrase of
\* best_match in one of its lists.
C26_BestMatchIffPositiveScore ==
    Matched =>
        \A i \in 1..Len(match_results) :
            /\ match_results[i].best_match = None <=> match_results[i].best_score = Zero
            /\ match_results[i].best_match # None
                  => /\ match_results[i].best_match.score = match_results[i].best_score
                     /\ FLt(Zero, match_results[i].best_match.score)
                     /\ match_results[i].best_match.timeline_item \in 1..Len(timeline)
                     /\ match_results[i].best_match.observed_action
                            \in PhrasesOfEvent(timeline[match_results[i].best_match.timeline_item])
                     /\ match_results[i].best_match.timestamp
                            = timeline[match_results[i].best_match.timeline_item].timestamp

\* C26, witness: against a timeline of two events one step has no best match, every
\* phrase scoring 0.0, and another has its best match in the first event with a phrase
\* the second event does not have
C26_Witness ==
    /\ Matched
    /\ Len(timeline) = 2
    /\ Len(match_results) = 2
    /\ match_results[1].best_match = None
    /\ match_results[1].best_score = Zero
    /\ match_results[2].best_match # None
    /\ match_results[2].best_match.timeline_item = 1
    /\ match_results[2].best_match.observed_action \notin PhrasesOfEvent(timeline[2])

----------------------------------------------------------------------------
(* A timeline that grows: after the steps are matched an event is appended to *)
(* the end of the timeline and the steps are matched again                    *)

InitAppend ==
    /\ planned_steps \in SeqsUpTo(StepPool, MaxSteps)
    /\ timeline \in SeqsUpTo(EventPool, MaxEvents - 1)
    /\ threshold \in Thresholds
    /\ match_results = <<>>
    /\ categories = <<>>
    /\ planned_action = <<>>
    /\ observed_action = <<>>
    /\ similarity = <<>>
    /\ NoFrames
    /\ DriverIdle
    /\ UpstreamIdle
    /\ error = "none"
    /\ pc = "match"

\* timeline.append(event); results = match_all_steps(planned_steps, timeline, threshold)
AppendEvent ==
    /\ pc = "matched"
    /\ Len(timeline) < MaxEvents
    /\ \E event \in EventPool : timeline' = Append(timeline, event)
    /\ match_results' = match_all_steps(planned_steps, timeline', threshold)
    /\ UNCHANGED <<planned_steps, threshold, categories, scorer_vars, frame_vars, driver_vars,
                   upstream_vars, error, pc>>

NextAppend == MatchAllSteps \/ AppendEvent

SpecAppend == InitAppend /\ [][NextAppend]_vars

----------------------------------------------------------------------------
(* Properties of the growing timeline                                         *)

\* The scores of the phrases of an event for a text
PhraseScoresOf(text, event) ==
    {SemanticMatch(text, phrase) : phrase \in PhrasesOfEvent(event)}

IsPrefix(s, t) == Len(s) <= Len(t) /\ \A k \in 1..Len(s) : s[k] = t[k]

\* What the results after an appended event are to the results before it
MonotoneStep(before, after, appended) ==
    /\ FLeq(before.best_score, after.best_score)
    /\ before.result = "observed" => after.result = "observed"
    /\ IsPrefix(before.all_matches, after.all_matches)
    /\ after.best_match # before.best_match
          => /\ FLt(before.best_score, after.best_score)
             /\ after.best_match.timeline_item = appended

\* C27: evidence is monotone: for a fixed step and threshold, appending an event to the
\* end of a timeline never lowers best_score, never turns the verdict observed into
\* deviation, never removes an entry of all_matches and never changes best_match unless
\* the appended event scores strictly higher than the best_score before.
C27_EvidenceMonotone ==
    [][(pc = "matched" /\ Len(timeline') = Len(timeline) + 1)
          => \A i \in 1..Len(planned_steps) :
                MonotoneStep(match_results[i], match_results'[i], Len(timeline'))]_vars

\* C27, witness: the second event of the timeline was appended after the first was
\* matched; for the first step it scores as the best match in the first event does and
\* the best match stays, for the second step it scores higher and is the best match
C27_Witness ==
    /\ Matched
    /\ Len(timeline) = MaxEvents
    /\ Len(match_results) = 2
    /\ match_results[1].best_match # None
    /\ match_results[1].best_match.timeline_item = Len(timeline) - 1
    /\ match_results[1].best_score \in PhraseScoresOf(ComparisonText(planned_steps[1]),
                                                      timeline[Len(timeline)])
    /\ match_results[2].best_match # None
    /\ match_results[2].best_match.timeline_item = Len(timeline)

----------------------------------------------------------------------------
(* Properties of the two classifiers                                          *)

\* C28: the classifier of the report generator agrees with the one of the engine: for
\* every result of match_step_with_timeline categorize_deviation_type gives what
\* categorize_deviation gives, and the Deviations count of the report (total minus
\* observed) is the number of results whose category is not "observed".
C28_ClassifiersAgree ==
    Matched =>
        /\ \A i \in 1..Len(categories) :
              categorize_deviation_type(match_results[i]) = categories[i]
        /\ (report_content # None /\ Len(categories) = Len(match_results))
              => report_content.summary.deviation_count
                    = Cardinality({i \in 1..Len(categories) : categories[i] # "observed"})

\* C28, witness: two steps are categorized by the engine, one observed and one with a
\* score of exactly 0.3 and the category "altered", and the report counts one deviation
C28_Witness ==
    /\ Matched
    /\ Len(match_results) = 2
    /\ categories = <<"observed", "altered">>
    /\ match_results[2].best_score = LowBand
    /\ report_content # None
    /\ report_content.summary.deviation_count = 1

----------------------------------------------------------------------------
(* extract_frames (src/src/tools/video_analyzer.py), iteration by iteration:  *)
(* the capture gives the frames of the video one after the other, cap.read()  *)
(* returns ret = False after the last one.  fps and interval_seconds are      *)
(* fractions.                                                                 *)

\* Bound of the model: the number of frames of a video
MaxReadFrames == 4

\* int(x) of a float: the fraction without what is behind the point
IntOf(x) == IF x[1] >= 0 THEN x[1] \div x[2] ELSE -((-x[1]) \div x[2])

\* timestamp = frame_count / fps if fps > 0 else 0
TimestampOf(count, fps) == IF FLt(Zero, fps) THEN Frac(count * fps[2], fps[1]) ELSE Zero

\* The dict appended to frames
SampledFrame(count, fps) ==
    [frame_number |-> count,
     timestamp |-> TimestampOf(count, fps),
     timestamp_formatted |-> format_timestamp(IntOf(TimestampOf(count, fps))),
     frame |-> "image"]

\* The videos: whether cap.isOpened(), cap.get(cv2.CAP_PROP_FPS) and the number of frames
Captures ==
    [opened : BOOLEAN,
     fps : {Zero, Frac(1, 2), One, Frac(2, 1)},
     total : 1..MaxReadFrames]

\* The values of interval_seconds: the default 2.0, one second, and parts of a second
Intervals == {Frac(2, 1), One, Frac(1, 2), Frac(1, 4)}

InitExtract ==
    /\ cap \in Captures
    /\ interval_seconds \in Intervals
    /\ frame_interval = 0
    /\ frames_read = 0
    /\ extracted_frames = <<>>
    /\ video_paths = <<>>
    /\ files = <<>>
    /\ NoDescription
    /\ planned_steps = <<>>
    /\ timeline = <<>>
    /\ threshold = Frac(1, 2)
    /\ match_results = <<>>
    /\ categories = <<>>
    /\ planned_action = <<>>
    /\ observed_action = <<>>
    /\ similarity = <<>>
    /\ NoFrames
    /\ DriverIdle
    /\ error = "none"
    /\ pc = "open"

extract_unset == <<matcher_vars, scorer_vars, frame_vars, driver_vars, video_paths, files,
                   description_vars, cap, interval_seconds>>

\* cap = cv2.VideoCapture(video_path) is opened: fps is read, frame_interval computed,
\* frames = [] and frame_count = 0
OpenCapture ==
    /\ pc = "open"
    /\ cap.opened
    /\ frame_interval' = IntOf(FMul(cap.fps, interval_seconds))
    /\ extracted_frames' = <<>>
    /\ frames_read' = 0
    /\ pc' = "read"
    /\ UNCHANGED <<extract_unset, error>>

\* `if not cap.isOpened(): raise ValueError(...)`
OpenCaptureFails ==
    /\ pc = "open"
    /\ ~cap.opened
    /\ error' = "ValueError"
    /\ pc' = "raised"
    /\ UNCHANGED <<extract_unset, frame_interval, frames_read, extracted_frames>>

\* One iteration of `while True` with ret = True: the frame is appended when
\* frame_count % frame_interval == 0, and frame_count += 1
ReadFrame ==
    /\ pc = "read"
    /\ frames_read < cap.total
    /\ frame_interval # 0
    /\ extracted_frames' =
          IF frames_read % frame_interval = 0
          THEN Append(extracted_frames, SampledFrame(frames_read, cap.fps))
          ELSE extracted_frames
    /\ frames_read' = frames_read + 1
    /\ UNCHANGED <<extract_unset, frame_interval, error, pc>>

\* One iteration with ret = True and frame_interval = 0: frame_count % frame_interval
\* raises ZeroDivisionError
ReadFrameDividesByZero ==
    /\ pc = "read"
    /\ frames_read < cap.total
    /\ frame_interval = 0
    /\ error' = "ZeroDivisionError"
    /\ pc' = "raised"
    /\ UNCHANGED <<extract_unset, frame_interval, frames_read, extracted_frames>>

\* ret = False: break, cap.release() and return frames
ReturnFrames ==
    /\ pc = "read"
    /\ frames_read = cap.total
    /\ pc' = "returned"
    /\ UNCHANGED <<extract_unset, frame_interval, frames_read, extracted_frames, error>>

NextExtract ==
    \/ OpenCapture
    \/ OpenCaptureFails
    \/ ReadFrame
    \/ ReadFrameDividesByZero
    \/ ReturnFrames

SpecExtract == InitExtract /\ [][NextExtract]_vars

----------------------------------------------------------------------------
(* Properties of extract_frames                                               *)

\* Frame 0 first, then strictly increasing frame numbers and non-decreasing timestamps,
\* every frame number a multiple of int(fps * interval_seconds)
SampledInOrder ==
    /\ extracted_frames # <<>>
    /\ extracted_frames[1].frame_number = 0
    /\ \A i, j \in 1..Len(extracted_frames) :
          i < j => /\ extracted_frames[i].frame_number < extracted_frames[j].frame_number
                   /\ FLeq(extracted_frames[i].timestamp, extracted_frames[j].timestamp)
    /\ IntOf(FMul(cap.fps, interval_seconds)) # 0
    /\ \A i \in 1..Len(extracted_frames) :
          extracted_frames[i].frame_number % IntOf(FMul(cap.fps, interval_seconds)) = 0

\* C29: for every readable video with fps > 0 and every sampling interval > 0 seconds
\* extract_frames ends without error and returns frame 0 first, followed by frames with
\* strictly increasing frame numbers and non-decreasing timestamps, each sampled frame
\* number a multiple of int(fps * interval).
C29_ExtractFramesSampled ==
    (cap.opened /\ FLt(Zero, cap.fps) /\ FLt(Zero, interval_seconds))
        => /\ error = "none"
           /\ pc # "raised"
           /\ pc = "returned" => SampledInOrder

\* C29 for the videos and intervals with at least one frame per interval, fps *
\* interval_seconds >= 1
C29_SampledWhenIntervalHasAFrame ==
    (cap.opened /\ FLeq(One, FMul(cap.fps, interval_seconds)))
        => /\ error = "none"
           /\ pc # "raised"
           /\ pc = "returned" => SampledInOrder

\* C29 on one input: two frames per second sampled every quarter of a second
C29_QuarterSecondOfTwoFps ==
    (cap.opened /\ cap.fps = Frac(2, 1) /\ interval_seconds = Frac(1, 4)) => error = "none"

----------------------------------------------------------------------------
(* The phrases of a description: extract_ui_elements, extract_actions and     *)
(* extract_text_content (src/src/tools/action_detector.py), applied by        *)
(* analyze_frame_with_vision_api to the description the service returned      *)

ui_keywords ==
    <<<<"b", "u", "t", "t", "o", "n">>,
      <<"i", "n", "p", "u", "t">>,
      <<"f", "i", "e", "l", "d">>,
      <<"i", "c", "o", "n">>,
      <<"l", "i", "n", "k">>,
      <<"m", "e", "n", "u">>,
      <<"d", "r", "o", "p", "d", "o", "w", "n">>,
      <<"f", "i", "l", "t", "e", "r">>,
      <<"s", "e", "a", "r", "c", "h">>,
      <<"f", "o", "r", "m">>>>

action_keywords == action_words \o <<<<"c", "l", "o", "s", "e">>>>

\* words.index(keyword): the index, from 0, of the first word that is the keyword
IndexOf(words, keyword) ==
    (CHOOSE i \in 1..Len(words) :
        words[i] = keyword /\ \A j \in 1..(i - 1) : words[j] # keyword) - 1

\* words[from : to], indices from 0, `to` not included and cut at the end of the list
Slice(words, from, to) == SubSeq(words, from + 1, Min(to, Len(words)))

\* " ".join(words)
RECURSIVE JoinWords(_)
JoinWords(words) ==
    IF words = <<>> THEN <<>>
    ELSE IF Len(words) = 1 THEN words[1]
    ELSE words[1] \o <<" ">> \o JoinWords(Tail(words))

\* The loop `for keyword in ...` of extract_actions and extract_ui_elements: a keyword
\* among the words gives the phrase of the words from `back` before its first
\* occurrence to `ahead` behind it, when that occurrence is not at index 0
RECURSIVE KeywordPhrases(_, _, _, _)
KeywordPhrases(keywords, words, back, ahead) ==
    IF keywords = <<>> THEN <<>>
    ELSE (IF Head(keywords) \in Range(words) /\ IndexOf(words, Head(keywords)) > 0
          THEN <<JoinWords(Slice(words,
                                 Max(0, IndexOf(words, Head(keywords)) - back),
                                 IndexOf(words, Head(keywords)) + ahead))>>
          ELSE <<>>)
         \o KeywordPhrases(Tail(keywords), words, back, ahead)

\* words[max(0, idx - 2) : idx + 2] for each keyword of ui_keywords
extract_ui_elements(text) == KeywordPhrases(ui_keywords, Tokens(lower(text)), 2, 2)

\* words[max(0, idx - 1) : idx + 3] for each keyword of action_keywords
extract_actions(text) == KeywordPhrases(action_keywords, Tokens(lower(text)), 1, 3)

\* quoted + capitalized
extract_text_content(text) == FindQuoted(text) \o FindCapitalized(text, 1)

\* The descriptions of the model: texts of at most MaxWords words of the lexicon
Descriptions == UNION {TextsOfWords(n) : n \in 0..MaxWords}

InitDescription ==
    /\ description \in Descriptions
    /\ response = <<>>
    /\ video_paths = <<>>
    /\ files = <<>>
    /\ NoCapture
    /\ planned_steps = <<>>
    /\ timeline = <<>>
    /\ threshold = Frac(1, 2)
    /\ match_results = <<>>
    /\ categories = <<>>
    /\ planned_action = <<>>
    /\ observed_action = <<>>
    /\ similarity = <<>>
    /\ NoFrames
    /\ DriverIdle
    /\ error = "none"
    /\ pc = "describe"

\* response = {"description": description, "ui_elements": extract_ui_elements(description),
\* "actions": extract_actions(description), "text_content": extract_text_content(...)}
ExtractPhrases ==
    /\ pc = "describe"
    /\ response' = [description |-> description,
                    ui_elements |-> extract_ui_elements(description),
                    actions |-> extract_actions(description),
                    text_content |-> extract_text_content(description)]
    /\ pc' = "described"
    /\ UNCHANGED <<matcher_vars, scorer_vars, frame_vars, driver_vars, video_paths, files,
                   extract_vars, description, error>>

NextDescription == ExtractPhrases

SpecDescription == InitDescription /\ [][NextDescription]_vars

----------------------------------------------------------------------------
(* Properties of the extraction                                               *)

\* The keywords of a vocabulary that are words of the description
KeywordsIn(keywords, text) == Range(keywords) \cap Range(Tokens(lower(text)))

\* Every keyword of the set is a word of one of the phrases
Covered(keywords, phrases) ==
    \A keyword \in keywords :
        \E k \in 1..Len(phrases) : keyword \in Range(Tokens(phrases[k]))

\* C30: keyword extraction is complete over the two vocabularies: for every description
\* and every keyword that is one of its whitespace-separated lower-cased tokens, at any
\* position, the first included, extract_actions / extract_ui_elements return a phrase
\* that contains that keyword, so a frame whose description has an action keyword never
\* comes to the timeline builder with an empty action set.
C30_KeywordsExtracted ==
    pc = "described" =>
        /\ Covered(KeywordsIn(action_keywords, description), response.actions)
        /\ Covered(KeywordsIn(ui_keywords, description), response.ui_elements)
        /\ KeywordsIn(action_keywords, description) # {} => response.actions # <<>>

\* C30 for the keywords whose first occurrence is not the first word of the description
C30_KeywordsBehindFirstWordExtracted ==
    pc = "described" =>
        /\ Covered({keyword \in KeywordsIn(action_keywords, description) :
                        Tokens(lower(description))[1] # keyword}, response.actions)
        /\ Covered({keyword \in KeywordsIn(ui_keywords, description) :
                        Tokens(lower(description))[1] # keyword}, response.ui_elements)

\* C30 on one input: the description "click the Icon" has an action phrase
C30_ClickFirstIsExtracted ==
    (pc = "described" /\ description = JoinWords(<<T_click, <<"t", "h", "e">>,
                                                  <<"I", "c", "o", "n">>>>))
        => response.actions # <<>>

====
